---- MODULE Spec2Model ----
(***************************************************************************)
(* Model of the static analysis engine of code-visualizer                  *)
(* (src/lib/analyzer.ts): the route, component, schema and dependency      *)
(* passes and analyzeCodebase, run over a bounded file tree.               *)
(*                                                                         *)
(* Strings are TLA+ strings; a file's content is the sequence of its       *)
(* lines (the text is the lines joined by "\n"), and the regular           *)
(* expressions of the source are evaluated over the whitespace-separated   *)
(* tokens of the text.                                                     *)
(***************************************************************************)
EXTENDS Integers, Sequences, FiniteSets, TLC

VARIABLES
  fs,            \* the file tree: absolute path -> entry (read-only for the engine)
  routesPc,      \* position of analyzeRoutes
  apiDirIdx,     \* analyzeRoutes: index of apiDir in possibleApiDirs
  routes,        \* analyzeRoutes: routes
  routeData,     \* analyzeRoutes: the returned RouteData
  compPc,        \* position of analyzeComponents
  compDirIdx,    \* analyzeComponents: index of componentDir in possibleComponentDirs
  components,    \* analyzeComponents: components
  directoryMap,  \* analyzeComponents: directoryMap, a sequence of [path, count] in insertion order
  componentData, \* analyzeComponents: the returned ComponentData
  modelsPc,      \* position of analyzeModels
  schemaPath,    \* analyzeModels: schemaPath ("" for null)
  parsed,        \* analyzeModels: the result of parseModels, [models, modelNames]
  modelData,     \* analyzeModels: the returned ModelData or null
  depsPc,        \* position of analyzeDependencies
  sourceFiles,   \* analyzeDependencies: sourceFiles
  fileIdx,       \* analyzeDependencies: index of filePath in sourceFiles, in the running loop
  nodes,         \* analyzeDependencies: nodes
  nodeMap,       \* analyzeDependencies: nodeMap, a function from filePath to nodeId
  clusterMap,    \* analyzeDependencies: clusterMap, a sequence of [label, nodeIds] in insertion order
  edges,         \* analyzeDependencies: edges (before deduplication)
  dependencies,  \* analyzeDependencies: the returned DependencyData
  mainPc,        \* position of analyzeCodebase
  projectName,   \* analyzeCodebase: projectName
  analysis,      \* analyzeCodebase: the returned AnalysisResult
  previous,      \* the caller: the AnalysisResult of the preceding invocation, if any
  entryPoint,    \* the entry point in use: "POST" (api/analyze/route.ts), "main" (the CLI) or "none"
  input,         \* POST: the request body; main: args
  entryPc,       \* position of the entry point
  outcome,       \* POST: the response; main: the exit of the process
  outputDir,     \* main: the output directory public/data, a function from file name to content
  runs,          \* main: the number of runs of the CLI started so far
  fileRead,      \* read-file POST: the files handed to fs.readFile, as [path, content]
  store,         \* useAppStore: the fields analysis, isLoading and error
  folderPath,    \* FolderPicker: the text of the path input
  handlers       \* FolderPicker: the started handleAnalyze / handleLoadFromFile calls

routesVars == <<routesPc, apiDirIdx, routes, routeData>>
compVars == <<compPc, compDirIdx, components, directoryMap, componentData>>
modelsVars == <<modelsPc, schemaPath, parsed, modelData>>
depsVars == <<depsPc, sourceFiles, fileIdx, nodes, nodeMap, clusterMap, edges, dependencies>>
mainVars == <<mainPc, projectName, analysis, previous>>
uiVars == <<store, folderPath, handlers>>
entryVars == <<entryPoint, input, entryPc, outcome, outputDir, runs, fileRead, uiVars>>
vars == <<fs, routesVars, compVars, modelsVars, depsVars, mainVars, entryVars>>

-----------------------------------------------------------------------------
(* Bounds of the model *)

MaxFiles == 3      \* source files present in a generated tree
MaxImports == 2    \* import lines placed in a generated tree
MaxRouteFiles == 2 \* files present under the API directories of a generated tree
MaxModels == 2     \* model blocks of a generated schema
MaxFields == 2     \* field lines placed in a generated schema
MaxEntries == 3    \* entries placed in a generated project of analyzeCodebase
MaxRequestEntries == 1 \* entries placed in a project handed to an entry point
MaxOverCap == 1    \* directories of a large tree beyond those that fill MAX_FILES
FilesPerDir == 20  \* source files in each directory of a large tree
MaxInterleavedEntries == 2 \* entries placed in a project whose passes interleave
MaxComponentFiles == 3 \* entries placed in a generated tree of the component pass
MaxGuardLines == 2 \* guard lines placed in a generated handler file
MaxClusterFiles == 4 \* source files placed in a generated tree of the clustering
MaxBodyLines == 2 \* lines placed in the body of the model of a field-parsing schema
MaxRuns == 2 \* runs of the CLI on one output directory
MaxCliEntries == 1 \* entries placed in a project given to a run of the CLI
MaxReadEntries == 2 \* entries of the tree of a read-file request, inside or outside the project
MaxHandlers == 3 \* calls of handleAnalyze / handleLoadFromFile that send a request
MaxResolveFiles == 2 \* files placed next to the importing file of an import-resolution tree

-----------------------------------------------------------------------------
(* String primitives (String.prototype) *)

Ch(s, i) == SubSeq(s, i, i)

StartsWith(s, p) == Len(s) >= Len(p) /\ SubSeq(s, 1, Len(p)) = p

EndsWith(s, p) == Len(s) >= Len(p) /\ SubSeq(s, Len(s) - Len(p) + 1, Len(s)) = p

\* s.indexOf(c) for a one-character c, 1-based; 0 when absent
IndexOfCh(s, c) ==
  IF \E i \in 1..Len(s) : Ch(s, i) = c
  THEN CHOOSE i \in 1..Len(s) : Ch(s, i) = c /\ \A j \in 1..(i - 1) : Ch(s, j) # c
  ELSE 0

\* s.lastIndexOf(c) for a one-character c, 1-based; 0 when absent
LastIndexOfCh(s, c) ==
  IF \E i \in 1..Len(s) : Ch(s, i) = c
  THEN CHOOSE i \in 1..Len(s) : Ch(s, i) = c /\ \A j \in (i + 1)..Len(s) : Ch(s, j) # c
  ELSE 0

RECURSIVE SplitOn(_, _)
\* s.split(c) for a one-character separator c
SplitOn(s, c) ==
  LET i == IndexOfCh(s, c)
  IN IF i = 0 THEN <<s>>
     ELSE <<SubSeq(s, 1, i - 1)>> \o SplitOn(SubSeq(s, i + 1, Len(s)), c)

RECURSIVE JoinWith(_, _)
\* parts.join(sep)
JoinWith(parts, sep) ==
  IF Len(parts) = 0 THEN ""
  ELSE IF Len(parts) = 1 THEN parts[1]
  ELSE parts[1] \o sep \o JoinWith(Tail(parts), sep)

RECURSIVE ReplaceAllCh(_, _, _)
\* s.replace(/c/g, r) for a one-character c
ReplaceAllCh(s, c, r) ==
  IF Len(s) = 0 THEN ""
  ELSE (IF Ch(s, 1) = c THEN r ELSE Ch(s, 1)) \o ReplaceAllCh(SubSeq(s, 2, Len(s)), c, r)

\* parts.filter(Boolean): drop the empty strings
NonEmpty(parts) == SelectSeq(parts, LAMBDA p : Len(p) > 0)

\* does sequence q contain element e
InSeq(q, e) == \E i \in 1..Len(q) : q[i] = e

-----------------------------------------------------------------------------
(* Node's path module, POSIX flavour *)

RECURSIVE NormalizeParts(_, _, _)
\* path.normalize on segments: drops "" and ".", resolves ".." against acc
NormalizeParts(parts, acc, absolute) ==
  IF Len(parts) = 0 THEN acc
  ELSE LET h == parts[1]
           t == Tail(parts)
       IN IF h = "" \/ h = "." THEN NormalizeParts(t, acc, absolute)
          ELSE IF h = ".."
               THEN IF Len(acc) > 0 /\ acc[Len(acc)] # ".."
                    THEN NormalizeParts(t, SubSeq(acc, 1, Len(acc) - 1), absolute)
                    ELSE IF absolute THEN NormalizeParts(t, acc, absolute)
                    ELSE NormalizeParts(t, Append(acc, ".."), absolute)
          ELSE NormalizeParts(t, Append(acc, h), absolute)

\* path.normalize(p): a trailing separator is kept
PathNormalize(p) ==
  LET absolute == StartsWith(p, "/")
      body == JoinWith(NormalizeParts(SplitOn(p, "/"), <<>>, absolute), "/")
      trail == IF EndsWith(p, "/") /\ Len(body) > 0 THEN "/" ELSE ""
  IN IF absolute THEN "/" \o body \o trail
     ELSE IF Len(body) = 0 THEN "." ELSE body \o trail

\* path.join(a, b)
PathJoin(a, b) ==
  IF Len(a) = 0 THEN PathNormalize(b)
  ELSE IF Len(b) = 0 THEN PathNormalize(a)
  ELSE PathNormalize(a \o "/" \o b)

\* path.resolve(from, to) for an absolute from: no trailing separator
PathResolve(from, to) ==
  LET joined == IF StartsWith(to, "/") THEN to ELSE from \o "/" \o to
  IN "/" \o JoinWith(NormalizeParts(SplitOn(joined, "/"), <<>>, TRUE), "/")

RECURSIVE CommonPrefixLen(_, _)
CommonPrefixLen(a, b) ==
  IF Len(a) = 0 \/ Len(b) = 0 \/ a[1] # b[1] THEN 0
  ELSE 1 + CommonPrefixLen(Tail(a), Tail(b))

\* path.relative(from, to) for absolute paths
PathRelative(from, to) ==
  LET f == NormalizeParts(SplitOn(from, "/"), <<>>, TRUE)
      t == NormalizeParts(SplitOn(to, "/"), <<>>, TRUE)
      n == CommonPrefixLen(f, t)
      ups == [i \in 1..(Len(f) - n) |-> ".."]
  IN JoinWith(ups \o SubSeq(t, n + 1, Len(t)), "/")

\* path.dirname(p)
PathDirname(p) ==
  LET i == LastIndexOfCh(p, "/")
  IN IF i = 0 THEN "."
     ELSE IF i = 1 THEN "/"
     ELSE SubSeq(p, 1, i - 1)

\* the last segment of p
LastSegment(p) == SubSeq(p, LastIndexOfCh(p, "/") + 1, Len(p))

\* path.extname(p): from the last "." of the last segment, "" for a dot-file
PathExtname(p) ==
  LET b == LastSegment(p)
      i == LastIndexOfCh(b, ".")
  IN IF i <= 1 THEN "" ELSE SubSeq(b, i, Len(b))

\* path.basename(p, ext)
PathBasename(p, ext) ==
  LET b == LastSegment(p)
  IN IF Len(ext) > 0 /\ EndsWith(b, ext) /\ b # ext
     THEN SubSeq(b, 1, Len(b) - Len(ext))
     ELSE b

-----------------------------------------------------------------------------
(* Node's fs module over the tree fs: a function from the absolute path of  *)
(* every existing entry to [kind, entries, lines, readable]; entries is a  *)
(* directory's listing in readdir order, lines a file's content.           *)

\* the path the operating system looks up: repeated separators collapse
OsPath(p) == "/" \o JoinWith(NormalizeParts(SplitOn(p, "/"), <<>>, TRUE), "/")

\* fs.existsSync(p): a trailing separator needs a directory
ExistsSync(p) ==
  /\ OsPath(p) \in DOMAIN fs
  /\ (EndsWith(p, "/") => fs[OsPath(p)].kind = "dir")

\* fs.statSync(p).isFile()
StatIsFile(p) == fs[OsPath(p)].kind = "file"

\* fs.statSync(p).isDirectory(), Dirent.isDirectory()
StatIsDirectory(p) == fs[OsPath(p)].kind = "dir"

\* fs.readdirSync(p) throws unless p is a listable directory
ReaddirThrows(p) == ~(fs[OsPath(p)].kind = "dir" /\ fs[OsPath(p)].readable)

ReaddirSync(p) == fs[OsPath(p)].entries

\* fs.readFileSync(p) throws unless p is a readable regular file
ReadFileThrows(p) == ~(fs[OsPath(p)].kind = "file" /\ fs[OsPath(p)].readable)

ReadFileSync(p) == fs[OsPath(p)].lines

-----------------------------------------------------------------------------
(* Text and tokens *)

\* the whitespace-separated tokens of a text given as lines
RECURSIVE Tokens(_)
Tokens(lines) ==
  IF Len(lines) = 0 THEN <<>>
  ELSE NonEmpty(SplitOn(lines[1], " ")) \o Tokens(Tail(lines))

WordChars ==
  {"a","b","c","d","e","f","g","h","i","j","k","l","m","n","o","p","q","r","s","t",
   "u","v","w","x","y","z","A","B","C","D","E","F","G","H","I","J","K","L","M","N",
   "O","P","Q","R","S","T","U","V","W","X","Y","Z","0","1","2","3","4","5","6","7",
   "8","9","_"}

\* /^\w+$/
IsWord(s) == Len(s) > 0 /\ \A i \in 1..Len(s) : Ch(s, i) \in WordChars

\* /^[\w*]+$/
IsWordOrStar(s) == Len(s) > 0 /\ \A i \in 1..Len(s) : Ch(s, i) \in WordChars \cup {"*"}

Quotes == {"\"", "'"}

\* ["']([^"']+)["'] at the start of token t: the captured group, "" when no match
QuotedPrefix(t) ==
  LET closing == {j \in 2..Len(t) : Ch(t, j) \in Quotes}
      j == CHOOSE k \in closing : \A m \in closing : k <= m
  IN IF Len(t) >= 3 /\ Ch(t, 1) \in Quotes /\ closing # {} /\ j >= 3
     THEN SubSeq(t, 2, j - 1)
     ELSE ""

-----------------------------------------------------------------------------
(* Route analyzer *)

\* the projectPath every analysis is given: absolute and normalised by path.resolve in
\* both callers
ProjectPath == "/p"

NoData == [isNull |-> TRUE]

HTTP_METHODS == <<"GET", "POST", "PUT", "DELETE", "PATCH">>

RECURSIVE FindApiRoutes(_), FindApiEntries(_, _, _)
\* findApiRoutes(dir): [threw, files]
FindApiRoutes(dir) ==
  IF ~ExistsSync(dir) THEN [threw |-> FALSE, files |-> <<>>]
  ELSE IF ReaddirThrows(dir) THEN [threw |-> TRUE, files |-> <<>>]
  ELSE FindApiEntries(dir, ReaddirSync(dir), 1)

\* the for loop of findApiRoutes from entry i on
FindApiEntries(dir, entries, i) ==
  IF i > Len(entries) THEN [threw |-> FALSE, files |-> <<>>]
  ELSE LET fullPath == PathJoin(dir, entries[i])
           here == IF StatIsDirectory(fullPath) THEN FindApiRoutes(fullPath)
                   ELSE IF entries[i] = "route.ts" \/ entries[i] = "route.js"
                        THEN [threw |-> FALSE, files |-> <<fullPath>>]
                        ELSE [threw |-> FALSE, files |-> <<>>]
       IN IF here.threw THEN here
          ELSE LET rest == FindApiEntries(dir, entries, i + 1)
               IN IF rest.threw THEN rest
                  ELSE [threw |-> FALSE, files |-> here.files \o rest.files]

\* ${method}\s*c at token j, for a one-character c
NameThen(toks, j, method, c) ==
  /\ j <= Len(toks)
  /\ \/ StartsWith(toks[j], method \o c)
     \/ (toks[j] = method /\ j + 1 <= Len(toks) /\ StartsWith(toks[j + 1], c))

\* export\s+(async\s+)?function\s+${method}\s*\(
FunctionPattern(toks, method) ==
  \E i \in 1..Len(toks) :
    /\ EndsWith(toks[i], "export")
    /\ \/ (i + 1 <= Len(toks) /\ toks[i + 1] = "function" /\ NameThen(toks, i + 2, method, "("))
       \/ (i + 2 <= Len(toks) /\ toks[i + 1] = "async" /\ toks[i + 2] = "function"
           /\ NameThen(toks, i + 3, method, "("))

\* export\s+const\s+${method}\s*=
ConstPattern(toks, method) ==
  \E i \in 1..Len(toks) :
    /\ EndsWith(toks[i], "export")
    /\ i + 1 <= Len(toks)
    /\ toks[i + 1] = "const"
    /\ NameThen(toks, i + 2, method, "=")

\* MethodPushes without the break: one push per matching pattern
MethodPushesNoBreak(toks, method) ==
  (IF FunctionPattern(toks, method) THEN <<method>> ELSE <<>>)
    \o (IF ConstPattern(toks, method) THEN <<method>> ELSE <<>>)

\* the inner loop of extractMethods over the two patterns: push once and break
MethodPushes(toks, method) ==
  IF FunctionPattern(toks, method) THEN <<method>>
  ELSE IF ConstPattern(toks, method) THEN <<method>>
  ELSE <<>>

RECURSIVE MethodsFrom(_, _)
\* the outer loop of extractMethods from HTTP_METHODS[k] on
MethodsFrom(toks, k) ==
  IF k > Len(HTTP_METHODS) THEN <<>>
  ELSE MethodPushes(toks, HTTP_METHODS[k]) \o MethodsFrom(toks, k + 1)

\* extractMethods(content)
ExtractMethods(content) == MethodsFrom(Tokens(content), 1)

UpperCase == "ABCDEFGHIJKLMNOPQRSTUVWXYZ"

LowerCase == "abcdefghijklmnopqrstuvwxyz"

RECURSIVE ToLowerCase(_)
\* s.toLowerCase()
ToLowerCase(s) ==
  IF Len(s) = 0 THEN ""
  ELSE IF Len(s) = 1
  THEN LET k == IndexOfCh(UpperCase, Ch(s, 1))
       IN IF k > 0 THEN Ch(LowerCase, k) ELSE Ch(s, 1)
  ELSE LET half == Len(s) \div 2
       IN ToLowerCase(SubSeq(s, 1, half)) \o ToLowerCase(SubSeq(s, half + 1, Len(s)))

\* s.includes(sub)
Includes(s, sub) == \E i \in 1..(Len(s) - Len(sub) + 1) : SubSeq(s, i, i + Len(sub) - 1) = sub

\* extractAuthType with the protected test made before the admin test
ExtractAuthTypeProtectedFirst(content) ==
  LET lowerContent == ToLowerCase(JoinWith(content, "\n"))
  IN IF \/ Includes(lowerContent, "getauthenticateduser")
        \/ Includes(lowerContent, "auth.protect")
        \/ Includes(lowerContent, "requireauth")
        \/ Includes(lowerContent, "getserversession")
        \/ Includes(lowerContent, "currentuser")
        \/ Includes(lowerContent, "unauthorized")
     THEN "protected"
     ELSE IF \/ Includes(lowerContent, "requireadmin")
             \/ Includes(lowerContent, "isadmin")
             \/ Includes(lowerContent, "role === 'admin'")
             \/ Includes(lowerContent, "role === \"admin\"")
     THEN "admin"
     ELSE "public"

\* extractAuthType(content)
ExtractAuthType(content) ==
  LET lowerContent == ToLowerCase(JoinWith(content, "\n"))
  IN IF \/ Includes(lowerContent, "requireadmin")
        \/ Includes(lowerContent, "isadmin")
        \/ Includes(lowerContent, "role === 'admin'")
        \/ Includes(lowerContent, "role === \"admin\"")
     THEN "admin"
     ELSE IF \/ Includes(lowerContent, "getauthenticateduser")
             \/ Includes(lowerContent, "auth.protect")
             \/ Includes(lowerContent, "requireauth")
             \/ Includes(lowerContent, "getserversession")
             \/ Includes(lowerContent, "currentuser")
             \/ Includes(lowerContent, "unauthorized")
     THEN "protected"
     ELSE "public"

\* parts.indexOf(x), 1-based; 0 when absent
IndexOfPart(parts, x) ==
  IF InSeq(parts, x)
  THEN CHOOSE i \in 1..Len(parts) : parts[i] = x /\ \A j \in 1..(i - 1) : parts[j] # x
  ELSE 0

\* pathToApiRoute(filePath, projectPath)
PathToApiRoute(filePath, projectPath) ==
  LET relativePath == PathRelative(projectPath, filePath)
      parts == SplitOn(relativePath, "/")
      apiIndex == IndexOfPart(parts, "api")
  IN IF apiIndex = 0 THEN "/" \o JoinWith(SubSeq(parts, 1, Len(parts) - 1), "/")
     ELSE "/" \o JoinWith(SubSeq(parts, apiIndex, Len(parts) - 1), "/")

\* ExtractFeature without the "api" case: always the first segment
ExtractFeatureFirstSegment(routePath) ==
  LET parts == NonEmpty(SplitOn(routePath, "/"))
  IN IF Len(parts) = 0 THEN "root" ELSE parts[1]

\* extractFeature(routePath)
ExtractFeature(routePath) ==
  LET parts == NonEmpty(SplitOn(routePath, "/"))
  IN IF Len(parts) >= 2 /\ parts[1] = "api" THEN parts[2]
     ELSE IF Len(parts) >= 1 THEN parts[1]
     ELSE "root"

\* possibleApiDirs of analyzeRoutes
PossibleApiDirs(projectPath) ==
  <<PathJoin(PathJoin(projectPath, "app"), "api"),
    PathJoin(PathJoin(PathJoin(projectPath, "src"), "app"), "api"),
    PathJoin(PathJoin(projectPath, "pages"), "api"),
    PathJoin(PathJoin(PathJoin(projectPath, "src"), "pages"), "api")>>

\* the body of the loop of analyzeRoutes over routeFiles: the records pushed for routeFile
RoutesOfFile(routeFile, projectPath) ==
  IF ReadFileThrows(routeFile) THEN <<>>
  ELSE LET content == ReadFileSync(routeFile)
           methods == ExtractMethods(content)
           auth == ExtractAuthType(content)
           routePath == PathToApiRoute(routeFile, projectPath)
           feature == ExtractFeature(routePath)
       IN [k \in 1..Len(methods) |->
             [path |-> routePath, method |-> methods[k], feature |-> feature, auth |-> auth,
              file |-> PathRelative(projectPath, routeFile)]]

RECURSIVE RoutesOfFiles(_, _, _)
\* the loop of analyzeRoutes over routeFiles from file i on
RoutesOfFiles(routeFiles, i, projectPath) ==
  IF i > Len(routeFiles) THEN <<>>
  ELSE RoutesOfFile(routeFiles[i], projectPath) \o RoutesOfFiles(routeFiles, i + 1, projectPath)

\* the primary collation order of the characters of paths and methods: punctuation, then
\* digits, then letters; case is ignored at this level
CollationOrder == "_-.[]/0123456789abcdefghijklmnopqrstuvwxyz"

CollationRank(c) == IndexOfCh(CollationOrder, ToLowerCase(c))

RECURSIVE ComparePrimary(_, _)
\* the comparison of a and b by CollationRank, character by character
ComparePrimary(a, b) ==
  IF Len(a) = 0 /\ Len(b) = 0 THEN 0
  ELSE IF Len(a) = 0 THEN -1
  ELSE IF Len(b) = 0 THEN 1
  ELSE LET ra == CollationRank(Ch(a, 1))
           rb == CollationRank(Ch(b, 1))
       IN IF ra < rb THEN -1
          ELSE IF ra > rb THEN 1
          ELSE ComparePrimary(Tail(a), Tail(b))

RECURSIVE CompareCase(_, _)
\* the comparison of two strings equal up to case: lower case first at the first difference
CompareCase(a, b) ==
  IF Len(a) = 0 \/ Len(b) = 0 THEN 0
  ELSE IF Ch(a, 1) = Ch(b, 1) THEN CompareCase(Tail(a), Tail(b))
  ELSE IF IndexOfCh(LowerCase, Ch(a, 1)) > 0 THEN -1 ELSE 1

\* a.localeCompare(b)
LocaleCompare(a, b) ==
  LET primary == ComparePrimary(a, b)
  IN IF primary # 0 THEN primary ELSE CompareCase(a, b)

\* the comparator of routes.sort
CompareRoutes(a, b) ==
  LET pathCompare == LocaleCompare(a.path, b.path)
  IN IF pathCompare # 0 THEN pathCompare ELSE LocaleCompare(a.method, b.method)

RECURSIVE SortRoutes(_)
\* routes.sort(comparator): Array.prototype.sort is stable
SortRoutes(rs) ==
  IF Len(rs) = 0 THEN <<>>
  ELSE LET first == CHOOSE i \in 1..Len(rs) :
                      /\ \A j \in 1..Len(rs) : CompareRoutes(rs[i], rs[j]) <= 0
                      /\ \A j \in 1..(i - 1) : CompareRoutes(rs[j], rs[i]) > 0
       IN <<rs[first]>> \o SortRoutes(SubSeq(rs, 1, first - 1) \o SubSeq(rs, first + 1, Len(rs)))

\* analyzeRoutes: one iteration of the loop over possibleApiDirs
RoutesScanDir ==
  /\ routesPc = "scan"
  /\ LET found == FindApiRoutes(PossibleApiDirs(ProjectPath)[apiDirIdx])
     IN IF found.threw
        THEN /\ routesPc' = "threw"
             /\ UNCHANGED <<apiDirIdx, routes>>
        ELSE /\ routes' = routes \o RoutesOfFiles(found.files, 1, ProjectPath)
             /\ apiDirIdx' = apiDirIdx + 1
             /\ routesPc' = IF apiDirIdx = Len(PossibleApiDirs(ProjectPath)) THEN "sort" ELSE "scan"
  /\ UNCHANGED <<fs, entryVars, routeData, compVars, modelsVars, depsVars, mainVars>>

\* analyzeRoutes: routes.sort and the return
RoutesSort ==
  /\ routesPc = "sort"
  /\ routes' = SortRoutes(routes)
  /\ routeData' = [isNull |-> FALSE, routes |-> routes', projectPath |-> ProjectPath]
  /\ routesPc' = "done"
  /\ UNCHANGED <<fs, entryVars, apiDirIdx, compVars, modelsVars, depsVars, mainVars>>

-----------------------------------------------------------------------------
(* Component analyzer *)

IGNORED_DIRS == <<"node_modules", ".next", ".git", "dist", "build", "__tests__", "__mocks__">>

COMPONENT_EXTENSIONS == <<".tsx", ".jsx">>

UpperCaseChars == {Ch(UpperCase, k) : k \in 1..Len(UpperCase)}

\* /^[A-Z]/
StartsUpperCase(s) == Len(s) > 0 /\ Ch(s, 1) \in UpperCaseChars

\* isComponentFile(filePath)
IsComponentFile(filePath) ==
  LET ext == PathExtname(filePath)
  IN IF ~InSeq(COMPONENT_EXTENSIONS, ext) THEN FALSE
     ELSE StartsUpperCase(PathBasename(filePath, ext))

RECURSIVE FindComponentFiles(_, _), FindComponentEntries(_, _, _, _)
\* findComponentFiles(dir, files): [threw, files]; files is the shared accumulator
FindComponentFiles(dir, files) ==
  IF ~ExistsSync(dir) THEN [threw |-> FALSE, files |-> files]
  ELSE IF ReaddirThrows(dir) THEN [threw |-> TRUE, files |-> files]
  ELSE FindComponentEntries(dir, ReaddirSync(dir), 1, files)

\* the for loop of findComponentFiles from entry i on
FindComponentEntries(dir, entries, i, files) ==
  IF i > Len(entries) THEN [threw |-> FALSE, files |-> files]
  ELSE IF InSeq(IGNORED_DIRS, entries[i]) THEN FindComponentEntries(dir, entries, i + 1, files)
  ELSE LET fullPath == PathJoin(dir, entries[i])
       IN IF StatIsDirectory(fullPath)
          THEN LET sub == FindComponentFiles(fullPath, files)
               IN IF sub.threw THEN sub
                  ELSE FindComponentEntries(dir, entries, i + 1, sub.files)
          ELSE IF IsComponentFile(fullPath)
               THEN FindComponentEntries(dir, entries, i + 1, Append(files, fullPath))
               ELSE FindComponentEntries(dir, entries, i + 1, files)

RECURSIVE TrimEnd(_)
\* the line without its trailing blanks
TrimEnd(line) ==
  IF Len(line) > 0 /\ Ch(line, Len(line)) = " " THEN TrimEnd(SubSeq(line, 1, Len(line) - 1))
  ELSE line

\* /^["']use client["'];?\s*$/m matches at one line of the text
UseClientLine(line) ==
  LET t == TrimEnd(line)
      body == IF EndsWith(t, ";") THEN SubSeq(t, 1, Len(t) - 1) ELSE t
  IN /\ Len(body) = 12
     /\ Ch(body, 1) \in Quotes
     /\ SubSeq(body, 2, 11) = "use client"
     /\ Ch(body, 12) \in Quotes

\* extractComponentType(content)
ExtractComponentType(content) ==
  IF \E i \in 1..Len(content) : UseClientLine(content[i]) THEN "client" ELSE "server"

RECURSIVE Dedup(_)
\* [...new Set(q)]: the first occurrence of every element, in order
Dedup(q) ==
  IF Len(q) = 0 THEN <<>>
  ELSE LET front == Dedup(SubSeq(q, 1, Len(q) - 1))
       IN IF InSeq(front, q[Len(q)]) THEN front ELSE Append(front, q[Len(q)])

\* index of the first token at or after j that contains "}", 0 when none
CloseBrace(toks, j) ==
  LET c == {k \in j..Len(toks) : IndexOfCh(toks[k], "}") > 0}
  IN IF c = {} THEN 0 ELSE CHOOSE k \in c : \A m \in c : k <= m

\* \{[^}]*\}\s+from\s+["']([^"']+)["'] from token j on: the captured group, "" when no match
BraceFromQuoted(toks, j) ==
  LET k == CloseBrace(toks, j)
  IN IF /\ j <= Len(toks)
        /\ StartsWith(toks[j], "{")
        /\ k > 0
        /\ IndexOfCh(toks[k], "}") = Len(toks[k])
        /\ k + 2 <= Len(toks)
        /\ toks[k + 1] = "from"
     THEN QuotedPrefix(toks[k + 2])
     ELSE ""

\* the import regular expression tried after an "import" that ends token i:
\*   import\s+(?:(?:\{[^}]*\}|[\w*]+(?:\s*,\s*\{[^}]*\})?)\s+from\s+)?["']([^"']+)["']
\* withNamedAfterDefault is the (?:\s*,\s*\{[^}]*\})? part, which only extractImports has.
\* The result is the captured group, "" when the expression does not match here.
ImportMatchAt(toks, i, withNamedAfterDefault) ==
  LET j == i + 1
  IN IF j > Len(toks) THEN ""
     ELSE IF StartsWith(toks[j], "{") THEN BraceFromQuoted(toks, j)
     ELSE IF IsWordOrStar(toks[j])
          THEN IF j + 2 <= Len(toks) /\ toks[j + 1] = "from" THEN QuotedPrefix(toks[j + 2]) ELSE ""
     ELSE IF /\ withNamedAfterDefault
             /\ EndsWith(toks[j], ",")
             /\ IsWordOrStar(SubSeq(toks[j], 1, Len(toks[j]) - 1))
          THEN BraceFromQuoted(toks, j + 1)
     ELSE QuotedPrefix(toks[j])

RECURSIVE ImportMatches(_, _, _)
\* the while loop over importRegex.exec: the captured groups of all matches from token i on
ImportMatches(toks, i, withNamedAfterDefault) ==
  IF i > Len(toks) THEN <<>>
  ELSE LET m == IF EndsWith(toks[i], "import") THEN ImportMatchAt(toks, i, withNamedAfterDefault) ELSE ""
       IN (IF Len(m) > 0 THEN <<m>> ELSE <<>>) \o ImportMatches(toks, i + 1, withNamedAfterDefault)

\* extractDependencies(content)
ExtractDependencies(content) ==
  LET relative == SelectSeq(ImportMatches(Tokens(content), 1, FALSE),
                            LAMBDA importPath : StartsWith(importPath, ".") \/ StartsWith(importPath, "@/"))
      lastParts == [k \in 1..Len(relative) |->
                      LET parts == SplitOn(relative[k], "/") IN parts[Len(parts)]]
  IN Dedup(SelectSeq(lastParts, StartsUpperCase))

\* countLines(content)
CountLines(content) == Len(content)

\* getDirectoryLabel(dirPath)
GetDirectoryLabel(dirPath) ==
  LET parts == SplitOn(dirPath, "/")
  IN IF Len(parts[Len(parts)]) > 0 THEN parts[Len(parts)] ELSE dirPath

\* possibleComponentDirs of analyzeComponents
PossibleComponentDirs(projectPath) ==
  <<PathJoin(projectPath, "components"),
    PathJoin(PathJoin(projectPath, "src"), "components"),
    PathJoin(projectPath, "app"),
    PathJoin(PathJoin(projectPath, "src"), "app")>>

\* the body of the loop of analyzeComponents over componentFiles, on st = [components, directoryMap]
AddComponent(st, filePath, projectPath) ==
  IF ReadFileThrows(filePath) THEN st
  ELSE LET content == ReadFileSync(filePath)
           relativePath == PathRelative(projectPath, filePath)
           dirPath == PathDirname(relativePath)
           name == PathBasename(filePath, PathExtname(filePath))
           known == \E k \in 1..Len(st.directoryMap) : st.directoryMap[k].path = dirPath
       IN [components |-> Append(st.components,
                                 [name |-> name, path |-> relativePath, directory |-> dirPath,
                                  type |-> ExtractComponentType(content),
                                  dependencies |-> ExtractDependencies(content),
                                  linesOfCode |-> CountLines(content)]),
           directoryMap |-> IF known
                            THEN [k \in 1..Len(st.directoryMap) |->
                                    IF st.directoryMap[k].path = dirPath
                                    THEN [st.directoryMap[k] EXCEPT !.count = @ + 1]
                                    ELSE st.directoryMap[k]]
                            ELSE Append(st.directoryMap, [path |-> dirPath, count |-> 1])]

RECURSIVE AddComponents(_, _, _, _)
\* the loop of analyzeComponents over componentFiles from file i on
AddComponents(st, files, i, projectPath) ==
  IF i > Len(files) THEN st
  ELSE AddComponents(AddComponent(st, files[i], projectPath), files, i + 1, projectPath)

RECURSIVE SortDirectories(_)
\* directories.sort((a, b) => b.componentCount - a.componentCount), a stable sort
SortDirectories(ds) ==
  IF Len(ds) = 0 THEN <<>>
  ELSE LET big == CHOOSE i \in 1..Len(ds) :
                    /\ \A j \in 1..Len(ds) : ds[j].componentCount <= ds[i].componentCount
                    /\ \A j \in 1..(i - 1) : ds[j].componentCount < ds[i].componentCount
       IN <<ds[big]>> \o SortDirectories(SubSeq(ds, 1, big - 1) \o SubSeq(ds, big + 1, Len(ds)))

\* the directories of analyzeComponents
Directories(dmap) ==
  SortDirectories([k \in 1..Len(dmap) |->
                     [path |-> dmap[k].path, label |-> GetDirectoryLabel(dmap[k].path),
                      componentCount |-> dmap[k].count]])

\* the comparator of components.sort
CompareComponents(a, b) ==
  LET dirCompare == LocaleCompare(a.directory, b.directory)
  IN IF dirCompare # 0 THEN dirCompare ELSE LocaleCompare(a.name, b.name)

RECURSIVE SortComponents(_)
\* components.sort(comparator), a stable sort
SortComponents(cs) ==
  IF Len(cs) = 0 THEN <<>>
  ELSE LET first == CHOOSE i \in 1..Len(cs) :
                      /\ \A j \in 1..Len(cs) : CompareComponents(cs[i], cs[j]) <= 0
                      /\ \A j \in 1..(i - 1) : CompareComponents(cs[j], cs[i]) > 0
       IN <<cs[first]>> \o SortComponents(SubSeq(cs, 1, first - 1) \o SubSeq(cs, first + 1, Len(cs)))

\* analyzeComponents: one iteration of the loop over possibleComponentDirs
CompScanDir ==
  /\ compPc = "scan"
  /\ LET found == FindComponentFiles(PossibleComponentDirs(ProjectPath)[compDirIdx], <<>>)
     IN IF found.threw
        THEN /\ compPc' = "threw"
             /\ UNCHANGED <<compDirIdx, components, directoryMap>>
        ELSE LET st == AddComponents([components |-> components, directoryMap |-> directoryMap],
                                     found.files, 1, ProjectPath)
             IN /\ components' = st.components
                /\ directoryMap' = st.directoryMap
                /\ compDirIdx' = compDirIdx + 1
                /\ compPc' = IF compDirIdx = Len(PossibleComponentDirs(ProjectPath))
                             THEN "sort" ELSE "scan"
  /\ UNCHANGED <<fs, entryVars, componentData, routesVars, modelsVars, depsVars, mainVars>>

\* analyzeComponents: directories, components.sort and the return
CompSort ==
  /\ compPc = "sort"
  /\ components' = SortComponents(components)
  /\ componentData' = [isNull |-> FALSE, components |-> components',
                       directories |-> Directories(directoryMap), projectPath |-> ProjectPath]
  /\ compPc' = "done"
  /\ UNCHANGED <<fs, entryVars, compDirIdx, directoryMap, routesVars, modelsVars, depsVars, mainVars>>

-----------------------------------------------------------------------------
(* Model analyzer *)

PRISMA_SCHEMA_PATHS == <<"prisma/schema.prisma", "schema.prisma", "prisma/schema/schema.prisma">>

\* findPrismaSchema(projectPath): "" stands for null
FindPrismaSchema(projectPath) ==
  LET hits == {k \in 1..Len(PRISMA_SCHEMA_PATHS) : ExistsSync(PathJoin(projectPath, PRISMA_SCHEMA_PATHS[k]))}
  IN IF hits = {} THEN ""
     ELSE PathJoin(projectPath, PRISMA_SCHEMA_PATHS[CHOOSE k \in hits : \A m \in hits : k <= m])

RECURSIVE TrimStart(_)
\* the line without its leading blanks
TrimStart(line) ==
  IF Len(line) > 0 /\ Ch(line, 1) = " " THEN TrimStart(SubSeq(line, 2, Len(line))) ELSE line

\* line.trim()
Trim(line) == TrimEnd(TrimStart(line))

\* parseField with a trailing ? stripped before a trailing []
ParseFieldOptionalFirst(line, modelNames) ==
  LET trimmed == Trim(line)
      parts == NonEmpty(SplitOn(trimmed, " "))
  IN IF Len(trimmed) = 0 \/ StartsWith(trimmed, "//") \/ StartsWith(trimmed, "@@") THEN <<>>
     ELSE IF Len(parts) < 2 THEN <<>>
     ELSE IF StartsWith(parts[1], "@") THEN <<>>
     ELSE LET isOptional == EndsWith(parts[2], "?")
              type1 == IF isOptional THEN SubSeq(parts[2], 1, Len(parts[2]) - 1) ELSE parts[2]
              isArray == EndsWith(type1, "[]")
              type2 == IF isArray THEN SubSeq(type1, 1, Len(type1) - 2) ELSE type1
          IN <<[name |-> parts[1], type |-> type2, isRelation |-> InSeq(modelNames, type2),
                isOptional |-> isOptional, isArray |-> isArray]>>

\* parseField(line, modelNames): the parsed field in a sequence, <<>> for null
ParseField(line, modelNames) ==
  LET trimmed == Trim(line)
      parts == NonEmpty(SplitOn(trimmed, " "))
  IN IF Len(trimmed) = 0 \/ StartsWith(trimmed, "//") \/ StartsWith(trimmed, "@@") THEN <<>>
     ELSE IF Len(parts) < 2 THEN <<>>
     ELSE IF StartsWith(parts[1], "@") THEN <<>>
     ELSE LET isArray == EndsWith(parts[2], "[]")
              type1 == IF isArray THEN SubSeq(parts[2], 1, Len(parts[2]) - 2) ELSE parts[2]
              isOptional == EndsWith(type1, "?")
              type2 == IF isOptional THEN SubSeq(type1, 1, Len(type1) - 1) ELSE type1
          IN <<[name |-> parts[1], type |-> type2, isRelation |-> InSeq(modelNames, type2),
                isOptional |-> isOptional, isArray |-> isArray]>>

RECURSIVE ParseFields(_, _, _)
\* the loop of parseModels over the lines of a model body, from line i on
ParseFields(body, i, modelNames) ==
  IF i > Len(body) THEN <<>>
  ELSE ParseField(body[i], modelNames) \o ParseFields(body, i + 1, modelNames)

\* ^model\s+(\w+)\s*\{ at a line of the text: the captured name, "" when the line does
\* not start a model
ModelHead(line) ==
  LET brace == IndexOfCh(line, "{")
      toks == NonEmpty(SplitOn(SubSeq(line, 1, brace - 1), " "))
  IN IF brace > 0 /\ StartsWith(line, "model ") /\ Len(toks) = 2 /\ IsWord(toks[2])
     THEN toks[2]
     ELSE ""

RECURSIVE ModelNamesFrom(_, _)
\* the first loop of parseModels (modelNameRegex.exec) from line i on
ModelNamesFrom(lines, i) ==
  IF i > Len(lines) THEN <<>>
  ELSE (IF Len(ModelHead(lines[i])) > 0 THEN <<ModelHead(lines[i])>> ELSE <<>>)
         \o ModelNamesFrom(lines, i + 1)

\* \{([^}]+)\} for the brace of line i: whether it matches, the lines of the captured body
\* and the line of the closing brace
ModelBody(lines, i) ==
  LET brace == IndexOfCh(lines[i], "{")
      rest == SubSeq(lines[i], brace + 1, Len(lines[i]))
      k == IndexOfCh(rest, "}")
      closers == {j \in (i + 1)..Len(lines) : IndexOfCh(lines[j], "}") > 0}
      j == CHOOSE c \in closers : \A m \in closers : c <= m
  IN IF k > 0 THEN [matched |-> k >= 2, body |-> <<SubSeq(rest, 1, k - 1)>>, last |-> i]
     ELSE IF closers = {} THEN [matched |-> FALSE, body |-> <<>>, last |-> i]
     ELSE [matched |-> TRUE,
           body |-> <<rest>> \o SubSeq(lines, i + 1, j - 1)
                      \o <<SubSeq(lines[j], 1, IndexOfCh(lines[j], "}") - 1)>>,
           last |-> j]

\* the names a single pass would know at line i: those declared up to that line
NamesDeclaredSoFar(lines, i) == ModelNamesFrom(SubSeq(lines, 1, i), 1)

\* the modelNames that parseModels hands to parseField for the model at line i: all the
\* names collected by the first loop
NamesForFields(lines, i) == ModelNamesFrom(lines, 1)

RECURSIVE ModelsFrom(_, _)
\* the second loop of parseModels (modelRegex.exec) from line i on
ModelsFrom(lines, i) ==
  IF i > Len(lines) THEN <<>>
  ELSE IF Len(ModelHead(lines[i])) = 0 THEN ModelsFrom(lines, i + 1)
  ELSE LET b == ModelBody(lines, i)
       IN IF ~b.matched THEN ModelsFrom(lines, i + 1)
          ELSE <<[name |-> ModelHead(lines[i]),
                  fields |-> ParseFields(b.body, 1, NamesForFields(lines, i))]>>
                 \o ModelsFrom(lines, b.last + 1)

\* parseModels(content)
ParseModels(content) ==
  [models |-> ModelsFrom(content, 1), modelNames |-> ModelNamesFrom(content, 1)]

\* the order of UTF-16 code units on the characters of names
CodeUnitOrder == "0123456789ABCDEFGHIJKLMNOPQRSTUVWXYZ_abcdefghijklmnopqrstuvwxyz"

RECURSIVE CodeUnitLess(_, _)
\* a < b as strings
CodeUnitLess(a, b) ==
  IF Len(b) = 0 THEN FALSE
  ELSE IF Len(a) = 0 THEN TRUE
  ELSE LET ra == IndexOfCh(CodeUnitOrder, Ch(a, 1))
           rb == IndexOfCh(CodeUnitOrder, Ch(b, 1))
       IN IF ra # rb THEN ra < rb ELSE CodeUnitLess(Tail(a), Tail(b))

\* RelationKey without the sort: the key of the ordered pair
RelationKeyOrdered(a, b) == a \o "-" \o b

\* [a, b].sort().join("-")
RelationKey(a, b) == IF CodeUnitLess(b, a) THEN b \o "-" \o a ELSE a \o "-" \o b

\* models.find(m => m.name === name): the found model in a sequence, <<>> for undefined
FindModel(models, name) ==
  LET hits == {k \in 1..Len(models) : models[k].name = name}
  IN IF hits = {} THEN <<>> ELSE <<models[CHOOSE k \in hits : \A m \in hits : k <= m]>>

\* otherModel?.fields.find(f => f.type === name && f.isRelation), as FindModel
FindReverseField(other, name) ==
  IF Len(other) = 0 THEN <<>>
  ELSE LET fields == other[1].fields
           hits == {k \in 1..Len(fields) : fields[k].type = name /\ fields[k].isRelation}
       IN IF hits = {} THEN <<>> ELSE <<fields[CHOOSE k \in hits : \A m \in hits : k <= m]>>

\* the cardinality extractRelationships gives the relation field of model
RelationType(models, model, field) ==
  IF field.isArray
  THEN LET reverseField == FindReverseField(FindModel(models, field.type), model.name)
       IN IF Len(reverseField) > 0 /\ reverseField[1].isArray THEN "many-to-many" ELSE "one-to-many"
  ELSE "one-to-one"

RECURSIVE RelationshipsFrom(_, _, _, _)
\* the loops of extractRelationships from field f of model m on, on st = [relationships, seen]
RelationshipsFrom(models, m, f, st) ==
  IF m > Len(models) THEN st
  ELSE IF f > Len(models[m].fields) THEN RelationshipsFrom(models, m + 1, 1, st)
  ELSE LET model == models[m]
           field == model.fields[f]
           key == RelationKey(model.name, field.type)
       IN IF field.isRelation /\ key \notin st.seen
          THEN RelationshipsFrom(models, m, f + 1,
                 [relationships |-> Append(st.relationships,
                                           [from |-> model.name, to |-> field.type,
                                            type |-> RelationType(models, model, field),
                                            fieldName |-> field.name]),
                  seen |-> st.seen \cup {key}])
          ELSE RelationshipsFrom(models, m, f + 1, st)

\* extractRelationships(models)
ExtractRelationships(models) ==
  RelationshipsFrom(models, 1, 1, [relationships |-> <<>>, seen |-> {}]).relationships

\* analyzeModels: findPrismaSchema and the early return
ModelsFind ==
  /\ modelsPc = "find"
  /\ schemaPath' = FindPrismaSchema(ProjectPath)
  /\ modelsPc' = IF Len(schemaPath') = 0 THEN "done" ELSE "parse"
  /\ UNCHANGED <<fs, entryVars, parsed, modelData, routesVars, compVars, depsVars, mainVars>>

\* analyzeModels: readFileSync and parseModels; a failed read returns null
ModelsParse ==
  /\ modelsPc = "parse"
  /\ IF ReadFileThrows(schemaPath)
     THEN /\ modelsPc' = "done"
          /\ UNCHANGED parsed
     ELSE /\ parsed' = ParseModels(ReadFileSync(schemaPath))
          /\ modelsPc' = "relate"
  /\ UNCHANGED <<fs, entryVars, schemaPath, modelData, routesVars, compVars, depsVars, mainVars>>

\* analyzeModels: extractRelationships and the return
ModelsRelate ==
  /\ modelsPc = "relate"
  /\ modelData' = [isNull |-> FALSE, models |-> parsed.models,
                   relationships |-> ExtractRelationships(parsed.models),
                   projectPath |-> ProjectPath]
  /\ modelsPc' = "done"
  /\ UNCHANGED <<fs, entryVars, schemaPath, parsed, routesVars, compVars, depsVars, mainVars>>

-----------------------------------------------------------------------------
(* Dependency analyzer *)

SOURCE_EXTENSIONS == <<".ts", ".tsx", ".js", ".jsx">>

MAX_FILES == 500

RECURSIVE FindSourceFiles(_, _, _), FindSourceEntries(_, _, _, _, _), FindSourceEntriesNoBreak(_, _, _, _, _)
\* findSourceFiles(dir, files, limit): [threw, files]; files is the shared accumulator
FindSourceFiles(dir, files, limit) ==
  IF ~ExistsSync(dir) \/ Len(files) >= limit THEN [threw |-> FALSE, files |-> files]
  ELSE IF ReaddirThrows(dir) THEN [threw |-> TRUE, files |-> files]
  ELSE FindSourceEntries(dir, ReaddirSync(dir), 1, files, limit)

\* FindSourceEntries without the break at the limit inside the loop
FindSourceEntriesNoBreak(dir, entries, i, files, limit) ==
  IF i > Len(entries) THEN [threw |-> FALSE, files |-> files]
  ELSE IF InSeq(IGNORED_DIRS, entries[i]) THEN FindSourceEntriesNoBreak(dir, entries, i + 1, files, limit)
  ELSE LET fullPath == PathJoin(dir, entries[i])
       IN IF StatIsDirectory(fullPath)
          THEN LET sub == FindSourceFiles(fullPath, files, limit)
               IN IF sub.threw THEN sub
                  ELSE FindSourceEntriesNoBreak(dir, entries, i + 1, sub.files, limit)
          ELSE IF InSeq(SOURCE_EXTENSIONS, PathExtname(entries[i]))
               THEN FindSourceEntriesNoBreak(dir, entries, i + 1, Append(files, fullPath), limit)
               ELSE FindSourceEntriesNoBreak(dir, entries, i + 1, files, limit)

\* the for loop of findSourceFiles from entry i on
FindSourceEntries(dir, entries, i, files, limit) ==
  IF i > Len(entries) \/ Len(files) >= limit THEN [threw |-> FALSE, files |-> files]
  ELSE IF InSeq(IGNORED_DIRS, entries[i]) THEN FindSourceEntries(dir, entries, i + 1, files, limit)
  ELSE LET fullPath == PathJoin(dir, entries[i])
       IN IF StatIsDirectory(fullPath)
          THEN LET sub == FindSourceFiles(fullPath, files, limit)
               IN IF sub.threw THEN sub
                  ELSE FindSourceEntries(dir, entries, i + 1, sub.files, limit)
          ELSE IF InSeq(SOURCE_EXTENSIONS, PathExtname(entries[i]))
               THEN FindSourceEntries(dir, entries, i + 1, Append(files, fullPath), limit)
               ELSE FindSourceEntries(dir, entries, i + 1, files, limit)

\* getNodeType that looks the file up in the list of the component pass
GetNodeTypeFromComponents(filePath) ==
  IF \E k \in 1..Len(components) : components[k].path = filePath THEN "component" ELSE "other"

\* getNodeType(filePath)
GetNodeType(filePath) ==
  IF Includes(filePath, "/components/") \/ Includes(filePath, "\\components\\") THEN "component"
  ELSE IF Includes(filePath, "/lib/") \/ Includes(filePath, "\\lib\\")
          \/ Includes(filePath, "/utils/") \/ Includes(filePath, "\\utils\\") THEN "lib"
  ELSE IF Includes(filePath, "/api/") \/ Includes(filePath, "\\api\\") THEN "api"
  ELSE IF Includes(filePath, "/app/") \/ Includes(filePath, "\\app\\")
          \/ Includes(filePath, "/pages/") \/ Includes(filePath, "\\pages\\") THEN "page"
  ELSE "other"

\* extractImports(content)
ExtractImports(content) ==
  SelectSeq(ImportMatches(Tokens(content), 1, TRUE),
            LAMBDA importPath : StartsWith(importPath, ".") \/ StartsWith(importPath, "@/"))

ResolveSuffixes == <<"", ".ts", ".tsx", ".js", ".jsx", "/index.ts", "/index.tsx", "/index.js", "/index.jsx">>

\* resolveImportPath without the statSync(withExt).isFile() test: any existing entry is a hit
ResolveImportPathAnyEntry(importPath, fromFile, projectPath) ==
  LET resolved == IF StartsWith(importPath, "@/")
                  THEN PathJoin(projectPath, SubSeq(importPath, 3, Len(importPath)))
                  ELSE PathResolve(PathDirname(fromFile), importPath)
      hits == {i \in 1..Len(ResolveSuffixes) : ExistsSync(resolved \o ResolveSuffixes[i])}
  IN IF hits = {} THEN ""
     ELSE resolved \o ResolveSuffixes[CHOOSE i \in hits : \A m \in hits : i <= m]

\* resolveImportPath(importPath, fromFile, projectPath): "" stands for null
ResolveImportPath(importPath, fromFile, projectPath) ==
  LET resolved == IF StartsWith(importPath, "@/")
                  THEN PathJoin(projectPath, SubSeq(importPath, 3, Len(importPath)))
                  ELSE PathResolve(PathDirname(fromFile), importPath)
      hits == {i \in 1..Len(ResolveSuffixes) :
                 ExistsSync(resolved \o ResolveSuffixes[i]) /\ StatIsFile(resolved \o ResolveSuffixes[i])}
  IN IF hits = {} THEN ""
     ELSE resolved \o ResolveSuffixes[CHOOSE i \in hits : \A m \in hits : i <= m]

\* getClusterLabel(dirPath)
GetClusterLabel(dirPath) ==
  LET parts == NonEmpty(SplitOn(dirPath, "/"))
      kept == SelectSeq(parts, LAMBDA p : p # "src" /\ p # "app")
      meaningful == SubSeq(kept, IF Len(kept) > 2 THEN Len(kept) - 1 ELSE 1, Len(kept))
      joined == JoinWith(meaningful, "/")
  IN IF Len(joined) = 0 THEN "root" ELSE joined

\* relativePath.replace(/[\/\\]/g, "_").replace(/\.[^.]+$/, "")
NodeId(relativePath) ==
  LET flat == ReplaceAllCh(ReplaceAllCh(relativePath, "/", "_"), "\\", "_")
      dot == LastIndexOfCh(flat, ".")
  IN IF dot > 0 /\ dot < Len(flat) THEN SubSeq(flat, 1, dot - 1) ELSE flat

\* one iteration of the first loop of analyzeDependencies, on st = [nodes, nodeMap, clusterMap]
AddNode(st, filePath) ==
  LET relativePath == PathRelative(ProjectPath, filePath)
      nodeId == NodeId(relativePath)
      dirPath == PathDirname(relativePath)
      label == PathBasename(filePath, PathExtname(filePath))
      type == GetNodeType(relativePath)
      clusterKey == GetClusterLabel(dirPath)
      known == \E k \in 1..Len(st.clusterMap) : st.clusterMap[k].label = clusterKey
      withKey == IF known THEN st.clusterMap
                 ELSE Append(st.clusterMap, [label |-> clusterKey, nodeIds |-> <<>>])
  IN [nodes |-> Append(st.nodes, [id |-> nodeId, label |-> label, directory |-> dirPath, type |-> type]),
      nodeMap |-> [p \in DOMAIN st.nodeMap \cup {filePath} |->
                     IF p = filePath THEN nodeId ELSE st.nodeMap[p]],
      clusterMap |-> [k \in 1..Len(withKey) |->
                        IF withKey[k].label = clusterKey /\ ~InSeq(withKey[k].nodeIds, nodeId)
                        THEN [withKey[k] EXCEPT !.nodeIds = Append(@, nodeId)]
                        ELSE withKey[k]]]

RECURSIVE AddNodes(_, _, _)
\* the first loop of analyzeDependencies from file i on
AddNodes(st, files, i) ==
  IF i > Len(files) THEN st ELSE AddNodes(AddNode(st, files[i]), files, i + 1)

RECURSIVE ImportEdges(_, _, _, _)
\* the inner loop of analyzeDependencies over the imports of filePath, from import i on
ImportEdges(filePath, imports, i, map) ==
  IF i > Len(imports) THEN <<>>
  ELSE LET sourceId == map[filePath]
           resolvedPath == ResolveImportPath(imports[i], filePath, ProjectPath)
           hit == /\ Len(resolvedPath) > 0
                  /\ resolvedPath \in DOMAIN map
                  /\ Len(map[resolvedPath]) > 0
                  /\ map[resolvedPath] # sourceId
       IN (IF hit THEN <<[source |-> sourceId, target |-> map[resolvedPath]]>> ELSE <<>>)
          \o ImportEdges(filePath, imports, i + 1, map)

\* one iteration of the second loop of analyzeDependencies: the edges pushed for filePath
FileEdges(filePath, map) ==
  IF ReadFileThrows(filePath) THEN <<>>
  ELSE IF filePath \notin DOMAIN map \/ Len(map[filePath]) = 0 THEN <<>>
  ELSE ImportEdges(filePath, ExtractImports(ReadFileSync(filePath)), 1, map)

RECURSIVE AllEdges(_, _, _)
\* the second loop of analyzeDependencies from file i on
AllEdges(files, i, map) ==
  IF i > Len(files) THEN <<>> ELSE FileEdges(files[i], map) \o AllEdges(files, i + 1, map)

\* the Map key of an edge
EdgeKey(e) == e.source \o "->" \o e.target

\* UniqueEdges without the Map: every pushed edge is returned
UniqueEdgesKeepAll(es) == es

\* Array.from(new Map(edges.map(e => [key, e])).values()): one entry per key, at the
\* position of the key's first occurrence, holding the key's last edge
UniqueEdges(es) ==
  LET firsts == SelectSeq([i \in 1..Len(es) |-> i],
                          LAMBDA i : \A j \in 1..(i - 1) : EdgeKey(es[j]) # EdgeKey(es[i]))
      LastOf(i) == CHOOSE j \in 1..Len(es) :
                     /\ EdgeKey(es[j]) = EdgeKey(es[i])
                     /\ \A m \in (j + 1)..Len(es) : EdgeKey(es[m]) # EdgeKey(es[i])
  IN [k \in 1..Len(firsts) |-> es[LastOf(firsts[k])]]

RECURSIVE SortBySizeDesc(_)
\* clusters.sort((a, b) => b.nodeIds.length - a.nodeIds.length), a stable sort
SortBySizeDesc(cs) ==
  IF Len(cs) = 0 THEN <<>>
  ELSE LET big == CHOOSE i \in 1..Len(cs) :
                    /\ \A j \in 1..Len(cs) : Len(cs[j].nodeIds) <= Len(cs[i].nodeIds)
                    /\ \A j \in 1..(i - 1) : Len(cs[j].nodeIds) < Len(cs[i].nodeIds)
       IN <<cs[big]>> \o SortBySizeDesc(SubSeq(cs, 1, big - 1) \o SubSeq(cs, big + 1, Len(cs)))

\* the clusters of analyzeDependencies
Clusters(cmap) ==
  LET kept == SelectSeq(cmap, LAMBDA c : Len(c.nodeIds) > 1)
  IN SortBySizeDesc([k \in 1..Len(kept) |->
                       [id |-> ReplaceAllCh(ReplaceAllCh(kept[k].label, "/", "_"), "\\", "_"),
                        label |-> kept[k].label,
                        nodeIds |-> kept[k].nodeIds]])

\* analyzeDependencies: const sourceFiles = findSourceFiles(projectPath)
DepsFind ==
  /\ depsPc = "find"
  /\ LET found == FindSourceFiles(ProjectPath, <<>>, MAX_FILES)
     IN /\ sourceFiles' = found.files
        /\ depsPc' = IF found.threw THEN "threw" ELSE "nodes"
  /\ UNCHANGED <<fs, entryVars, routesVars, compVars, modelsVars, mainVars, fileIdx, nodes, nodeMap, clusterMap, edges, dependencies>>

\* analyzeDependencies: the first loop over sourceFiles
DepsNodes ==
  /\ depsPc = "nodes"
  /\ LET st == AddNodes([nodes |-> nodes, nodeMap |-> nodeMap, clusterMap |-> clusterMap], sourceFiles, 1)
     IN /\ nodes' = st.nodes
        /\ nodeMap' = st.nodeMap
        /\ clusterMap' = st.clusterMap
  /\ depsPc' = "edges"
  /\ UNCHANGED <<fs, entryVars, routesVars, compVars, modelsVars, mainVars, sourceFiles, fileIdx, edges, dependencies>>

\* analyzeDependencies: the second loop over sourceFiles
DepsEdges ==
  /\ depsPc = "edges"
  /\ edges' = edges \o AllEdges(sourceFiles, 1, nodeMap)
  /\ depsPc' = "finish"
  /\ UNCHANGED <<fs, entryVars, routesVars, compVars, modelsVars, mainVars, sourceFiles, fileIdx, nodes, nodeMap, clusterMap, dependencies>>

\* analyzeDependencies: one iteration of the first loop over sourceFiles
DepsNodeStep ==
  /\ depsPc = "nodes"
  /\ IF Len(sourceFiles) = 0
     THEN /\ depsPc' = "edges"
          /\ UNCHANGED <<fileIdx, nodes, nodeMap, clusterMap>>
     ELSE LET st == AddNode([nodes |-> nodes, nodeMap |-> nodeMap, clusterMap |-> clusterMap],
                            sourceFiles[fileIdx])
          IN /\ nodes' = st.nodes
             /\ nodeMap' = st.nodeMap
             /\ clusterMap' = st.clusterMap
             /\ fileIdx' = IF fileIdx = Len(sourceFiles) THEN 1 ELSE fileIdx + 1
             /\ depsPc' = IF fileIdx = Len(sourceFiles) THEN "edges" ELSE "nodes"
  /\ UNCHANGED <<fs, entryVars, routesVars, compVars, modelsVars, mainVars, sourceFiles, edges, dependencies>>

\* analyzeDependencies: one iteration of the second loop over sourceFiles
DepsEdgeStep ==
  /\ depsPc = "edges"
  /\ IF Len(sourceFiles) = 0
     THEN /\ depsPc' = "finish"
          /\ UNCHANGED <<fileIdx, edges>>
     ELSE /\ edges' = edges \o FileEdges(sourceFiles[fileIdx], nodeMap)
          /\ fileIdx' = IF fileIdx = Len(sourceFiles) THEN 1 ELSE fileIdx + 1
          /\ depsPc' = IF fileIdx = Len(sourceFiles) THEN "finish" ELSE "edges"
  /\ UNCHANGED <<fs, entryVars, routesVars, compVars, modelsVars, mainVars, sourceFiles, nodes, nodeMap,
                 clusterMap, dependencies>>

\* analyzeDependencies: clusters, uniqueEdges and the return
DepsFinish ==
  /\ depsPc = "finish"
  /\ dependencies' = [isNull |-> FALSE, nodes |-> nodes, edges |-> UniqueEdges(edges),
                      clusters |-> Clusters(clusterMap), projectPath |-> ProjectPath]
  /\ depsPc' = "done"
  /\ UNCHANGED <<fs, entryVars, routesVars, compVars, modelsVars, mainVars, sourceFiles, fileIdx, nodes, nodeMap, clusterMap, edges>>

-----------------------------------------------------------------------------
(* Main analyzer *)

\* packageJson.name of JSON.parse(text) for a text of the form { "name": "...", ... };
\* "" when the text is not of that form (no name, or a parse error that is ignored)
PackageName(lines) ==
  LET toks == Tokens(lines)
  IN IF Len(toks) >= 3 /\ toks[1] = "{" /\ toks[2] = "\"name\":" THEN QuotedPrefix(toks[3]) ELSE ""

\* analyzeCodebase: projectName from the directory name or package.json
MainStart ==
  /\ mainPc = "start"
  /\ LET packageJsonPath == PathJoin(ProjectPath, "package.json")
         name == IF ExistsSync(packageJsonPath) /\ ~ReadFileThrows(packageJsonPath)
                 THEN PackageName(ReadFileSync(packageJsonPath)) ELSE ""
     IN projectName' = IF Len(name) > 0 THEN name ELSE PathBasename(ProjectPath, "")
  /\ mainPc' = "callRoutes"
  /\ UNCHANGED <<fs, entryVars, analysis, previous, routesVars, compVars, modelsVars, depsVars>>

\* a pass has run to its end: its promise is settled
Settled(pc) == pc \in {"done", "threw"}

\* NewRoutes without the fresh array: the list the last call left is used again
KeptRoutes(left) == left

\* const routes: RouteInfo[] = [] at the entry of analyzeRoutes; left is the list of the
\* last call
NewRoutes(left) == <<>>

\* analyzeCodebase: the call analyzeRoutes(projectPath) in the argument of Promise.all
MainCallRoutes ==
  /\ mainPc = "callRoutes"
  /\ routesPc' = "scan"
  /\ routes' = NewRoutes(routes)
  /\ apiDirIdx' = 1
  /\ mainPc' = "callComponents"
  /\ UNCHANGED <<fs, entryVars, routeData, projectName, analysis, previous, compVars, modelsVars, depsVars>>

\* analyzeCodebase: the call analyzeComponents(projectPath), once analyzeRoutes has run
MainCallComponents ==
  /\ mainPc = "callComponents"
  /\ Settled(routesPc)
  /\ compPc' = "scan"
  /\ components' = <<>>
  /\ directoryMap' = <<>>
  /\ compDirIdx' = 1
  /\ mainPc' = "callModels"
  /\ UNCHANGED <<fs, entryVars, componentData, projectName, analysis, previous,
                 routesVars, modelsVars, depsVars>>

\* analyzeCodebase: the call analyzeModels(projectPath), once analyzeComponents has run
MainCallModels ==
  /\ mainPc = "callModels"
  /\ Settled(compPc)
  /\ modelsPc' = "find"
  /\ schemaPath' = ""
  /\ parsed' = [models |-> <<>>, modelNames |-> <<>>]
  /\ mainPc' = "callDeps"
  /\ UNCHANGED <<fs, entryVars, modelData, projectName, analysis, previous, routesVars, compVars, depsVars>>

\* analyzeCodebase: the call analyzeDependencies(projectPath), once analyzeModels has run
MainCallDeps ==
  /\ mainPc = "callDeps"
  /\ Settled(modelsPc)
  /\ depsPc' = "find"
  /\ sourceFiles' = <<>>
  /\ fileIdx' = 1
  /\ nodes' = <<>>
  /\ nodeMap' = <<>>
  /\ clusterMap' = <<>>
  /\ edges' = <<>>
  /\ mainPc' = "join"
  /\ UNCHANGED <<fs, entryVars, dependencies, projectName, analysis, previous,
                 routesVars, compVars, modelsVars>>

\* analyzeCodebase: await Promise.all and the return; a rejected pass rejects the whole
MainJoin ==
  /\ mainPc = "join"
  /\ \A pc \in {routesPc, compPc, modelsPc, depsPc} : Settled(pc)
  /\ IF "threw" \in {routesPc, compPc, modelsPc, depsPc}
     THEN /\ mainPc' = "threw"
          /\ UNCHANGED analysis
     ELSE /\ mainPc' = "returned"
          /\ analysis' = [routes |-> IF Len(routeData.routes) > 0 THEN routeData ELSE NoData,
                          components |-> IF Len(componentData.components) > 0 THEN componentData ELSE NoData,
                          models |-> modelData,
                          dependencies |-> IF Len(dependencies.nodes) > 0 THEN dependencies ELSE NoData,
                          projectPath |-> ProjectPath,
                          projectName |-> projectName]
  /\ UNCHANGED <<fs, entryVars, projectName, previous, routesVars, compVars, modelsVars, depsVars>>

\* the caller keeps the returned AnalysisResult and invokes analyzeCodebase again on the
\* same path; the tree is unchanged
MainAgain ==
  /\ mainPc = "returned"
  /\ previous = NoData
  /\ previous' = analysis
  /\ analysis' = NoData
  /\ mainPc' = "start"
  /\ UNCHANGED <<fs, entryVars, projectName, routesVars, compVars, modelsVars, depsVars>>

\* analyzeCodebase: the four calls in the argument of Promise.all, for passes that yield
\* to each other between their steps: every pass is started on fresh locals and the
\* steps of the four then run in any order
MainCallAll ==
  /\ mainPc = "callRoutes"
  /\ routesPc' = "scan" /\ routes' = NewRoutes(routes) /\ apiDirIdx' = 1
  /\ compPc' = "scan" /\ components' = <<>> /\ directoryMap' = <<>> /\ compDirIdx' = 1
  /\ modelsPc' = "find" /\ schemaPath' = "" /\ parsed' = [models |-> <<>>, modelNames |-> <<>>]
  /\ depsPc' = "find" /\ sourceFiles' = <<>> /\ fileIdx' = 1
  /\ nodes' = <<>> /\ nodeMap' = <<>> /\ clusterMap' = <<>> /\ edges' = <<>>
  /\ mainPc' = "join"
  /\ UNCHANGED <<fs, entryVars, routeData, componentData, modelData, dependencies,
                 projectName, analysis, previous>>

\* what the caller keeps of a call of analyzeCodebase that rejected
Rejected == [isNull |-> FALSE, rejected |-> TRUE]

\* the caller notes that analyzeCodebase rejected and invokes it again on the same path;
\* the tree is unchanged
MainRetry ==
  /\ mainPc = "threw"
  /\ previous = NoData
  /\ previous' = Rejected
  /\ mainPc' = "start"
  /\ UNCHANGED <<fs, entryVars, projectName, analysis, routesVars, compVars, modelsVars, depsVars>>

-----------------------------------------------------------------------------
(* Entry points: POST /api/analyze and the CLI *)

\* the working directory of the process, for path.resolve
Cwd == "/"

\* the response NextResponse.json(..., { status })
Response(status) == [kind |-> "response", code |-> status]

\* process.exit(code), or the end of the process with code 0
Exit(code) == [kind |-> "exit", code |-> code]

\* the two validations both entry points make before the analysis: the path exists and
\* is a directory
Validated(resolvedPath) == ExistsSync(resolvedPath) /\ StatIsDirectory(resolvedPath)

\* POST: from request.json() to the call of analyzeCodebase.  input is the body:
\* json is "malformed" when request.json() rejects, "null" or "object"; type and value
\* are those of body.projectPath.
PostValidate ==
  /\ entryPoint = "POST"
  /\ entryPc = "idle"
  /\ IF input.json \in {"malformed", "null"}
     THEN \* request.json() or the destructuring throws: the catch block
          /\ outcome' = Response(500)
          /\ entryPc' = "done"
          /\ UNCHANGED mainPc
     ELSE IF input.type # "string" \/ Len(input.value) = 0
     THEN /\ outcome' = Response(400)
          /\ entryPc' = "done"
          /\ UNCHANGED mainPc
     ELSE IF ~Validated(PathResolve(Cwd, input.value))
     THEN /\ outcome' = Response(400)
          /\ entryPc' = "done"
          /\ UNCHANGED mainPc
     ELSE /\ entryPc' = "analyze"
          /\ mainPc' = "start"
          /\ UNCHANGED outcome
  /\ UNCHANGED <<fs, entryPoint, input, outputDir, runs, fileRead, uiVars, projectName, analysis, previous,
                 routesVars, compVars, modelsVars, depsVars>>

\* POST: the await of analyzeCodebase: the result as JSON, or the catch block
PostRespond ==
  /\ entryPoint = "POST"
  /\ entryPc = "analyze"
  /\ mainPc \in {"returned", "threw"}
  /\ outcome' = IF mainPc = "returned" THEN Response(200) ELSE Response(500)
  /\ entryPc' = "done"
  /\ UNCHANGED <<fs, entryPoint, input, outputDir, runs, fileRead, uiVars, mainVars, routesVars, compVars, modelsVars, depsVars>>

\* main: from process.argv to the call of analyzeCodebase.  input is args.
CliValidate ==
  /\ entryPoint = "main"
  /\ entryPc = "idle"
  /\ IF Len(input) = 0
     THEN /\ outcome' = Exit(1)
          /\ entryPc' = "done"
          /\ UNCHANGED mainPc
     ELSE IF ~Validated(PathResolve(Cwd, input[1]))
     THEN /\ outcome' = Exit(1)
          /\ entryPc' = "done"
          /\ UNCHANGED mainPc
     ELSE /\ entryPc' = "analyze"
          /\ mainPc' = "start"
          /\ UNCHANGED outcome
  /\ UNCHANGED <<fs, entryPoint, input, outputDir, runs, fileRead, uiVars, projectName, analysis, previous,
                 routesVars, compVars, modelsVars, depsVars>>

\* the extensions tried when the exact file is not found
EXTENSIONS_TO_TRY == <<".tsx", ".ts", ".jsx", ".js", ".mjs", ".cjs", ".json", ".css", ".scss", ".md">>

\* the index files tried in the directory
IndexFiles == <<"index.tsx", "index.ts", "index.jsx", "index.js">>

\* read-file POST: fullPath, filePath taken relative to projectPath unless absolute
FullPath(filePath, projectPath) ==
  IF StartsWith(filePath, "/") THEN filePath ELSE PathJoin(projectPath, filePath)

\* read-file POST: resolvedProject
ResolvedProject(projectPath) == PathResolve(Cwd, projectPath)

\* read-file POST: resolvedFile before the probing
ResolvedFile(filePath, projectPath) == PathResolve(Cwd, FullPath(filePath, projectPath))

\* fs.access(p) resolves: the entry exists
Access(p) == OsPath(p) \in DOMAIN fs

\* the first path of candidates that fs.access accepts, "" when there is none
FirstAccessible(candidates) ==
  LET hits == {i \in 1..Len(candidates) : Access(candidates[i])}
  IN IF hits = {} THEN ""
     ELSE candidates[CHOOSE i \in hits : \A j \in hits : i <= j]

\* read-file POST: resolvedFile after the probing: the path itself, then the path with
\* each extension, then each index file beneath it; "" when fileExists stays false
ProbeFile(resolvedFile) ==
  IF Access(resolvedFile) THEN resolvedFile
  ELSE LET withExt == FirstAccessible([i \in 1..Len(EXTENSIONS_TO_TRY) |->
                                        resolvedFile \o EXTENSIONS_TO_TRY[i]])
       IN IF withExt # "" THEN withExt
          ELSE FirstAccessible([i \in 1..Len(IndexFiles) |->
                                  PathJoin(resolvedFile, IndexFiles[i])])

\* read-file POST: from request.json() to the check that the file is within the project
\* directory.  input is the body [filePath, projectPath]; a missing field is "".
ReadFileValidate ==
  /\ entryPoint = "readFile"
  /\ entryPc = "idle"
  /\ IF Len(input.filePath) = 0 \/ Len(input.projectPath) = 0
     THEN /\ outcome' = Response(400)
          /\ entryPc' = "done"
     ELSE IF ~StartsWith(ResolvedFile(input.filePath, input.projectPath),
                         ResolvedProject(input.projectPath))
     THEN /\ outcome' = Response(403)
          /\ entryPc' = "done"
     ELSE /\ entryPc' = "probe"
          /\ UNCHANGED outcome
  /\ UNCHANGED <<fs, entryPoint, input, outputDir, runs, fileRead, uiVars, mainVars,
                 routesVars, compVars, modelsVars, depsVars>>

\* read-file POST: the probing, fs.readFile and the response; the catch block answers 500
ReadFileServe ==
  /\ entryPoint = "readFile"
  /\ entryPc = "probe"
  /\ LET resolvedFile == ProbeFile(ResolvedFile(input.filePath, input.projectPath))
     IN IF resolvedFile = ""
        THEN /\ outcome' = Response(404)
             /\ UNCHANGED fileRead
        ELSE IF ReadFileThrows(resolvedFile)
        THEN /\ outcome' = Response(500)
             /\ UNCHANGED fileRead
        ELSE /\ outcome' = Response(200)
             /\ fileRead' = Append(fileRead,
                                   [path |-> resolvedFile,
                                    content |-> JoinWith(fs[OsPath(resolvedFile)].lines, "\n")])
  /\ entryPc' = "done"
  /\ UNCHANGED <<fs, entryPoint, input, outputDir, runs, uiVars, mainVars,
                 routesVars, compVars, modelsVars, depsVars>>

\* the texts typed into the path input
PathTexts == {"", "  ", "/p", " /q "}

\* the ways the request of a handler settles: the response is ok, is not ok with or
\* without an error field in its body, or fetch / response.json() rejects
FetchResults == {"ok", "notOk", "notOkWithError", "rejected"}

\* an error message of the store, or an Error thrown with that message
Message(text) == [isNull |-> FALSE, message |-> text]

\* useAppStore.setAnalysis(data): set({ analysis: data, error: null })
SetAnalysis(s, data) == [s EXCEPT !.analysis = data, !.error = NoData]

\* useAppStore.setLoading(loading): set({ isLoading: loading })
SetLoading(s, loading) == [s EXCEPT !.isLoading = loading]

\* useAppStore.setError(error): set({ error, isLoading: false })
SetError(s, error) == [s EXCEPT !.error = error, !.isLoading = FALSE]

\* FolderPicker: onChange of the path input, setFolderPath(e.target.value)
TypePath ==
  /\ entryPoint = "picker"
  /\ Len(handlers) < MaxHandlers
  /\ \E text \in PathTexts : folderPath' = text
  /\ folderPath' # folderPath
  /\ UNCHANGED <<fs, entryPoint, input, entryPc, outcome, outputDir, runs, fileRead, store, handlers,
                 mainVars, routesVars, compVars, modelsVars, depsVars>>

\* handleAnalyze up to the await of fetch: the empty path is refused with an error,
\* otherwise setLoading(true), setError(null) and the request is sent
HandleAnalyzeStart ==
  IF Len(Trim(folderPath)) = 0
  THEN /\ store' = SetError(store, Message("Please enter a folder path"))
       /\ UNCHANGED handlers
  ELSE /\ store' = SetError(SetLoading(store, TRUE), NoData)
       /\ handlers' = Append(handlers, [handler |-> "handleAnalyze", pc |-> "fetch",
                                         projectPath |-> Trim(folderPath)])

\* FolderPicker: a click on the Analyze button, disabled={isLoading || !folderPath.trim()}
ClickAnalyze ==
  /\ entryPoint = "picker"
  /\ Len(handlers) < MaxHandlers
  /\ ~(store.isLoading \/ Len(Trim(folderPath)) = 0)
  /\ HandleAnalyzeStart
  /\ UNCHANGED <<fs, entryPoint, input, entryPc, outcome, outputDir, runs, fileRead, folderPath,
                 mainVars, routesVars, compVars, modelsVars, depsVars>>

\* FolderPicker: onKeyDown of the path input, e.key === "Enter" && handleAnalyze()
PressEnter ==
  /\ entryPoint = "picker"
  /\ Len(handlers) < MaxHandlers
  /\ HandleAnalyzeStart
  /\ UNCHANGED <<fs, entryPoint, input, entryPc, outcome, outputDir, runs, fileRead, folderPath,
                 mainVars, routesVars, compVars, modelsVars, depsVars>>

\* FolderPicker: a click on the cached-analysis button, disabled={isLoading}:
\* handleLoadFromFile up to the await of fetch
ClickLoadFromFile ==
  /\ entryPoint = "picker"
  /\ Len(handlers) < MaxHandlers
  /\ ~store.isLoading
  /\ store' = SetError(SetLoading(store, TRUE), NoData)
  /\ handlers' = Append(handlers, [handler |-> "handleLoadFromFile", pc |-> "fetch",
                                    projectPath |-> ""])
  /\ UNCHANGED <<fs, entryPoint, input, entryPc, outcome, outputDir, runs, fileRead, folderPath,
                 mainVars, routesVars, compVars, modelsVars, depsVars>>

\* the message of the error caught by the handler: the fetch rejected, the response was
\* not ok with or without an error field, or response.json() rejected
CaughtMessage(handler, result) ==
  IF result = "notOkWithError" /\ handler = "handleAnalyze"
    THEN Message("Path does not exist")
  ELSE IF result = "notOk" \/ result = "notOkWithError"
    THEN IF handler = "handleAnalyze" THEN Message("Analysis failed")
         ELSE Message("No cached analysis found. Run 'npm run analyze <path>' first.")
  ELSE Message("Failed to fetch")

\* handleAnalyze / handleLoadFromFile from the settling of fetch to the end: setAnalysis
\* on success, setError in the catch block, setLoading(false) in the finally block
FetchSettle ==
  /\ entryPoint = "picker"
  /\ \E i \in 1..Len(handlers), result \in FetchResults :
       /\ handlers[i].pc = "fetch"
       /\ handlers' = [handlers EXCEPT ![i] = [@ EXCEPT !.pc = result]]
       /\ store' = SetLoading(
                      IF result = "ok"
                      THEN SetAnalysis(store, [isNull |-> FALSE, request |-> i])
                      ELSE SetError(store, CaughtMessage(handlers[i].handler, result)),
                      FALSE)
  /\ UNCHANGED <<fs, entryPoint, input, entryPc, outcome, outputDir, runs, fileRead, folderPath,
                 mainVars, routesVars, compVars, modelsVars, depsVars>>

\* JSON.stringify(value, null, 2): the JSON text of value
JsonStringify(value) == [json |-> value]

\* fs.writeFileSync(path.join(outputDir, name), content) on the directory dir
WriteFile(dir, name, content) ==
  [n \in DOMAIN dir \cup {name} |-> IF n = name THEN content ELSE dir[n]]

\* main: if (result.x) fs.writeFileSync(path.join(outputDir, "x.json"), ...)
WriteSubResult(dir, name, sub) ==
  IF sub.isNull THEN dir ELSE WriteFile(dir, name, JsonStringify(sub))

\* main: the writes of the individual files and of the combined result
WriteOutput(dir, result) ==
  LET d1 == WriteSubResult(dir, "routes.json", result.routes)
      d2 == WriteSubResult(d1, "components.json", result.components)
      d3 == WriteSubResult(d2, "models.json", result.models)
      d4 == WriteSubResult(d3, "dependencies.json", result.dependencies)
  IN WriteFile(d4, "analysis.json", JsonStringify(result))

\* main: the await of analyzeCodebase: the output is written and the process ends, or
\* main().catch exits with 1
CliFinish ==
  /\ entryPoint = "main"
  /\ entryPc = "analyze"
  /\ mainPc \in {"returned", "threw"}
  /\ outcome' = IF mainPc = "returned" THEN Exit(0) ELSE Exit(1)
  /\ entryPc' = "done"
  /\ outputDir' = IF mainPc = "returned" THEN WriteOutput(outputDir, analysis) ELSE outputDir
  /\ UNCHANGED <<fs, entryPoint, input, runs, fileRead, uiVars, mainVars, routesVars, compVars, modelsVars, depsVars>>

-----------------------------------------------------------------------------
(* File trees: the inputs of the analysis *)

\* the absolute path of a path relative to the project root
Abs(rel) == IF Len(rel) = 0 THEN ProjectPath ELSE ProjectPath \o "/" \o rel

\* the directories above a relative path, the project root ("") included
Ancestors(rel) ==
  LET parts == SplitOn(rel, "/")
  IN {JoinWith(SubSeq(parts, 1, k), "/") : k \in 0..(Len(parts) - 1)}

\* the name under directory d on the way to rel
ChildName(d, rel) ==
  LET parts == SplitOn(rel, "/")
      depth == IF Len(d) = 0 THEN 0 ELSE Len(SplitOn(d, "/"))
  IN parts[depth + 1]

\* The tree holding the entries of specs, a sequence of [path, kind, lines, readable] with
\* paths relative to the project root, and the directories above them.  A directory lists
\* its children in the order in which specs first mentions them.
MkTree(specs) ==
  LET idx == 1..Len(specs)
      rels == {specs[i].path : i \in idx} \cup UNION {Ancestors(specs[i].path) : i \in idx} \cup {""}
      SpecOf(r) == IF \E i \in idx : specs[i].path = r
                   THEN specs[CHOOSE i \in idx : specs[i].path = r]
                   ELSE [path |-> r, kind |-> "dir", lines |-> <<>>, readable |-> TRUE]
      Below(d) == SelectSeq([i \in idx |-> specs[i].path], LAMBDA r : d \in Ancestors(r))
      Listing(d) == LET b == Below(d) IN Dedup([k \in 1..Len(b) |-> ChildName(d, b[k])])
  IN [p \in {Abs(r) : r \in rels} |->
        LET r == CHOOSE r \in rels : Abs(r) = p
            sp == SpecOf(r)
        IN [kind |-> sp.kind,
            entries |-> IF sp.kind = "dir" THEN Listing(r) ELSE <<>>,
            lines |-> IF sp.kind = "file" THEN sp.lines ELSE <<>>,
            readable |-> sp.readable]]

File(rel, lines) == [path |-> rel, kind |-> "file", lines |-> lines, readable |-> TRUE]

\* the files a generated tree of the dependency pass may hold, in listing order
DepsPaths ==
  <<"a.ts", "lib/foo.ts", "lib/index.ts", "lib_foo.ts", "node_modules/x.ts">>

\* the import lines a generated source file may hold
ImportLines ==
  <<"import { foo } from \"./foo\"",
    "import foo from '@/lib/foo'",
    "import type { Foo } from \"./lib/foo\"",
    "import \"@/lib\";",
    "import a, { b } from \"../a\"",
    "import React from \"react\"">>

RECURSIVE SubsetsUpTo(_, _)
\* the subsets of S with at most k elements
SubsetsUpTo(S, k) ==
  IF k = 0 THEN {{}}
  ELSE LET smaller == SubsetsUpTo(S, k - 1)
       IN smaller \cup {sub \cup {x} : sub \in smaller, x \in S}

\* where import lines are placed: sets of <<file, line>> with at most MaxImports elements
Placements(present) == SubsetsUpTo(present \X (1..Len(ImportLines)), MaxImports)

\* the content of file f under placement pl: its import lines in the order of ImportLines,
\* then one line of code
ContentOf(f, pl) ==
  LET mine == SelectSeq([k \in 1..Len(ImportLines) |-> k], LAMBDA k : <<f, k>> \in pl)
  IN [k \in 1..Len(mine) |-> ImportLines[mine[k]]] \o <<"export const x = 1;">>

\* the tree with the files of DepsPaths numbered in present, under placement pl
DepsTree(present, pl) ==
  LET chosen == SelectSeq([k \in 1..Len(DepsPaths) |-> k], LAMBDA k : k \in present)
  IN MkTree([k \in 1..Len(chosen) |-> File(DepsPaths[chosen[k]], ContentOf(chosen[k], pl))])

\* the trees of the dependency pass: at most maxFiles of DepsPaths, with placed imports
DepsTrees(maxFiles) ==
  UNION {{DepsTree(present, pl) : pl \in Placements(present)} :
           present \in SubsetsUpTo(1..Len(DepsPaths), maxFiles)}

\* the variables of analyzeRoutes before its first step, at position pc
RoutesAt(pc) == routesPc = pc /\ apiDirIdx = 1 /\ routes = <<>> /\ routeData = NoData

\* the variables of analyzeComponents before its first step, at position pc
CompAt(pc) ==
  compPc = pc /\ compDirIdx = 1 /\ components = <<>> /\ directoryMap = <<>> /\ componentData = NoData

\* the variables of analyzeModels before its first step, at position pc
ModelsAt(pc) ==
  modelsPc = pc /\ schemaPath = "" /\ parsed = [models |-> <<>>, modelNames |-> <<>>] /\ modelData = NoData

\* the variables of analyzeDependencies before its first step, at position pc
DepsAt(pc) ==
  /\ depsPc = pc
  /\ sourceFiles = <<>>
  /\ fileIdx = 1
  /\ nodes = <<>>
  /\ nodeMap = <<>>
  /\ clusterMap = <<>>
  /\ edges = <<>>
  /\ dependencies = NoData

\* the variables of analyzeCodebase before its first step, at position pc
MainAt(pc) == mainPc = pc /\ projectName = "" /\ analysis = NoData /\ previous = NoData

\* no outcome yet
NoOutcome == [kind |-> "none", code |-> 0]

\* create<AppState>: the state of the store after construction
InitialStore == [analysis |-> NoData, isLoading |-> FALSE, error |-> NoData]

\* analyzeCodebase is called directly: no entry point is in use
NoEntry ==
  /\ entryPoint = "none" /\ input = <<>> /\ entryPc = "idle" /\ outcome = NoOutcome
  /\ outputDir = <<>> /\ runs = 0 /\ fileRead = <<>>
  /\ store = InitialStore /\ folderPath = "" /\ handlers = <<>>

\* analyzeDependencies(projectPath) called on a tree of DepsTrees
InitDeps ==
  /\ fs \in DepsTrees(MaxFiles)
  /\ RoutesAt("idle") /\ CompAt("idle") /\ ModelsAt("idle") /\ DepsAt("find") /\ MainAt("idle") /\ NoEntry

NextDeps == DepsFind \/ DepsNodes \/ DepsEdges \/ DepsFinish

SpecDeps == InitDeps /\ [][NextDeps]_vars

\* the source files a generated tree of the clustering may hold, in listing order
ClusterPaths ==
  <<"a.ts", "b.ts", "lib/foo.ts", "lib/foo.tsx", "lib/bar.ts", "src/lib/baz.ts", "lib_foo.ts",
    "app/admin/users/Page.tsx", "src/admin/users/form.ts">>

\* the trees of the clustering: at most maxClusterFiles of ClusterPaths, without imports
ClusterTrees(maxClusterFiles) ==
  {MkTree([n \in 1..Len(chosen) |-> File(ClusterPaths[chosen[n]], <<"export const x = 1;">>)]) :
     chosen \in {SelectSeq([k \in 1..Len(ClusterPaths) |-> k], LAMBDA k : k \in present) :
                   present \in SubsetsUpTo(1..Len(ClusterPaths), maxClusterFiles)}}

\* analyzeDependencies(projectPath) called on a tree of ClusterTrees
InitClusters ==
  /\ fs \in ClusterTrees(MaxClusterFiles)
  /\ RoutesAt("idle") /\ CompAt("idle") /\ ModelsAt("idle") /\ DepsAt("find") /\ MainAt("idle") /\ NoEntry

SpecClusters == InitClusters /\ [][NextDeps]_vars

\* the import line the importing file lib/foo.ts of an import-resolution tree may hold
ResolveImports ==
  <<"import { bar } from \"@/lib/bar\"",
    "import bar from './bar'",
    "import { bar } from \"@/lib/bar.ts\"",
    "import \"@/lib\";",
    "import { bar } from \"../lib/bar\"">>

\* the files that may stand at the candidate paths of those imports; lib/bar.ts/x.ts makes
\* the candidate lib/bar.ts a directory
ResolvePaths ==
  <<"lib/bar.ts", "lib/bar.tsx", "lib/bar.js", "lib/bar/index.ts", "lib/bar/index.jsx",
    "lib/bar.ts/x.ts", "lib/index.ts">>

\* the tree with lib/foo.ts holding import line and the files of ResolvePaths numbered in
\* present
ResolveTree(line, present) ==
  LET chosen == SelectSeq([k \in 1..Len(ResolvePaths) |-> k], LAMBDA k : k \in present)
  IN MkTree(<<File("lib/foo.ts", <<ResolveImports[line], "export const foo = 1;">>)>>
              \o [k \in 1..Len(chosen) |-> File(ResolvePaths[chosen[k]], <<"export const bar = 1;">>)])

\* the trees of import resolution: one import line, at most maxResolveFiles candidate
\* files, none of them above another
ResolveTrees(maxResolveFiles) ==
  {ResolveTree(line, present) :
     line \in 1..Len(ResolveImports),
     present \in {c \in SubsetsUpTo(1..Len(ResolvePaths), maxResolveFiles) :
                    \A a, b \in c : ResolvePaths[a] \notin Ancestors(ResolvePaths[b])}}

\* analyzeDependencies(projectPath) called on a tree of ResolveTrees
InitResolve ==
  /\ fs \in ResolveTrees(MaxResolveFiles)
  /\ RoutesAt("idle") /\ CompAt("idle") /\ ModelsAt("idle") /\ DepsAt("find") /\ MainAt("idle") /\ NoEntry

SpecResolve == InitResolve /\ [][NextDeps]_vars

\* the files a generated tree of the route pass may hold, in listing order
RoutePaths ==
  <<"app/api/users/route.ts", "app/api/users/route.js", "src/app/api/users/route.ts",
    "app/api/route.ts", "pages/api/posts/[id]/route.ts", "pages/api/hello.ts">>

\* the contents a generated handler file may hold
RouteTexts ==
  <<<<"export async function GET(req) {", "  return ok", "}">>,
    <<"export async function GET() {}", "export function POST (req) {}">>,
    <<"export const GET = handler", "export async function GET(req) {}",
      "export const DELETE= requireAdmin(handler)">>,
    <<"function GET() {}", "export const GETTER = 1", "// 401 Unauthorized">>>>

\* the tree with the files of RoutePaths numbered in DOMAIN choice; choice[k] is the number
\* of the file's text in RouteTexts, 0 for a file that cannot be read
RouteTree(choice) ==
  LET chosen == SelectSeq([k \in 1..Len(RoutePaths) |-> k], LAMBDA k : k \in DOMAIN choice)
  IN MkTree([n \in 1..Len(chosen) |->
               [path |-> RoutePaths[chosen[n]], kind |-> "file",
                lines |-> RouteTexts[IF choice[chosen[n]] = 0 THEN 1 ELSE choice[chosen[n]]],
                readable |-> choice[chosen[n]] # 0]])

\* the trees of the route pass: at most maxRouteFiles of RoutePaths, each with a content
RouteTrees(maxRouteFiles) ==
  UNION {{RouteTree(choice) : choice \in [present -> 0..Len(RouteTexts)]} :
           present \in SubsetsUpTo(1..Len(RoutePaths), maxRouteFiles)}

\* analyzeRoutes(projectPath) called on a tree of RouteTrees
InitRoutes ==
  /\ fs \in RouteTrees(MaxRouteFiles)
  /\ RoutesAt("scan") /\ CompAt("idle") /\ ModelsAt("idle") /\ DepsAt("idle") /\ MainAt("idle") /\ NoEntry

NextRoutes == RoutesScanDir \/ RoutesSort

SpecRoutes == InitRoutes /\ [][NextRoutes]_vars

\* the lines a generated handler file may hold between its two handlers
GuardLines ==
  <<"requireAdmin()",
    "if (u.isAdmin) {}",
    "if (role === 'admin') {}",
    "if (role === \"admin\") {}",
    "getAuthenticatedUser()",
    "auth.protect()",
    "requireAuth()",
    "getServerSession()",
    "currentUser()",
    "throw \"Unauthorized\"",
    "REQUIRE_ADMIN()",
    "return ok">>

\* the tree with app/api/users/route.ts holding a GET and a POST handler and the lines of
\* GuardLines numbered in guards, next to a handler file without any guard line
GuardTree(guards) ==
  LET mine == SelectSeq([k \in 1..Len(GuardLines) |-> k], LAMBDA k : k \in guards)
  IN MkTree(<<File("app/api/users/route.ts",
                   <<"export function GET() {">> \o [k \in 1..Len(mine) |-> GuardLines[mine[k]]]
                     \o <<"}", "export const POST = GET">>),
              File("app/api/health/route.ts", <<"export function GET() {}">>)>>)

\* the trees of the auth classification: at most maxGuardLines guard lines
GuardTrees(maxGuardLines) ==
  {GuardTree(guards) : guards \in SubsetsUpTo(1..Len(GuardLines), maxGuardLines)}

\* analyzeRoutes(projectPath) called on a tree of GuardTrees
InitGuards ==
  /\ fs \in GuardTrees(MaxGuardLines)
  /\ RoutesAt("scan") /\ CompAt("idle") /\ ModelsAt("idle") /\ DepsAt("idle") /\ MainAt("idle") /\ NoEntry

SpecGuards == InitGuards /\ [][NextRoutes]_vars

\* the names a generated schema declares its models with
ModelNamePool == <<"User", "Post", "Tag">>

\* the field lines a generated model may hold
FieldLines ==
  <<"  id String",
    "  posts Post[]",
    "  author User",
    "  users User[]",
    "  owner User?",
    "  tags Tag[]">>

RECURSIVE ModelOrders(_)
\* the sequences of at most k distinct names of ModelNamePool
ModelOrders(k) ==
  IF k = 0 THEN {<<>>}
  ELSE LET shorter == ModelOrders(k - 1)
       IN shorter \cup {Append(o, ModelNamePool[n]) :
                          <<o, n>> \in {on \in shorter \X (1..Len(ModelNamePool)) :
                                          ~InSeq(on[1], ModelNamePool[on[2]])}}

\* the block of the model at position m of order, with the field lines placed in it
ModelBlock(order, m, pl) ==
  LET mine == SelectSeq([k \in 1..Len(FieldLines) |-> k], LAMBDA k : <<m, k>> \in pl)
  IN <<"model " \o order[m] \o " {", "  // " \o order[m]>>
       \o [k \in 1..Len(mine) |-> FieldLines[mine[k]]]
       \o <<"  @@index([id])", "}", "">>

RECURSIVE SchemaText(_, _, _)
\* the schema text with the blocks of order from position m on
SchemaText(order, m, pl) ==
  IF m > Len(order) THEN <<"// end of schema">>
  ELSE ModelBlock(order, m, pl) \o SchemaText(order, m + 1, pl)

\* the trees of the schema pass: prisma/schema.prisma with at most maxModels models and at
\* most MaxFields placed field lines
SchemaTrees(maxModels) ==
  UNION {{MkTree(<<File("prisma/schema.prisma", SchemaText(order, 1, pl))>>) :
            pl \in SubsetsUpTo((1..Len(order)) \X (1..Len(FieldLines)), MaxFields)} :
           order \in ModelOrders(maxModels)}

\* analyzeModels(projectPath) called on a tree of SchemaTrees
InitModels ==
  /\ fs \in SchemaTrees(MaxModels)
  /\ RoutesAt("idle") /\ CompAt("idle") /\ ModelsAt("find") /\ DepsAt("idle") /\ MainAt("idle") /\ NoEntry

NextModels == ModelsFind \/ ModelsParse \/ ModelsRelate

SpecModels == InitModels /\ [][NextModels]_vars

\* the lines the body of the model of a field-parsing schema may hold
BodyLines ==
  <<"",
    "   ",
    "  // a comment",
    "  /// doc String",
    "  @@index([id])",
    "  @@unique x",
    "  @id String",
    "  id",
    "  id String",
    "  name   String?   @default(1)",
    "  tags Tag[]",
    "  tag Tag?[]",
    "  odd Tag[]?",
    "  self User?">>

\* the trees of field parsing: prisma/schema.prisma with the one model User whose body
\* holds at most maxBodyLines of BodyLines
BodyTrees(maxBodyLines) ==
  {MkTree(<<File("prisma/schema.prisma",
                 <<"model User {">> \o [n \in 1..Len(chosen) |-> BodyLines[chosen[n]]] \o <<"}">>)>>) :
     chosen \in {SelectSeq([k \in 1..Len(BodyLines) |-> k], LAMBDA k : k \in present) :
                   present \in SubsetsUpTo(1..Len(BodyLines), maxBodyLines)}}

\* analyzeModels(projectPath) called on a tree of BodyTrees
InitFields ==
  /\ fs \in BodyTrees(MaxBodyLines)
  /\ RoutesAt("idle") /\ CompAt("idle") /\ ModelsAt("find") /\ DepsAt("idle") /\ MainAt("idle") /\ NoEntry

SpecFields == InitFields /\ [][NextModels]_vars

\* the ways a generated schema declares the entity Tag
TagBlocks ==
  <<<<"model Tag {}">>,
    <<"model Tag {", "}">>,
    <<"model Tag { }">>,
    <<"model Tag {", "  id String", "}">>>>

\* the trees of entity declarations: prisma/schema.prisma with the model User holding the
\* field lines numbered in mine and the entity Tag declared as TagBlocks[form], before or
\* after User
TagTrees(maxFields) ==
  {MkTree(<<File("prisma/schema.prisma",
                 LET user == <<"model User {">>
                               \o [n \in 1..Len(mine) |-> FieldLines[mine[n]]] \o <<"}">>
                 IN IF tagFirst THEN TagBlocks[form] \o user ELSE user \o TagBlocks[form])>>) :
     mine \in {SelectSeq([k \in 1..Len(FieldLines) |-> k], LAMBDA k : k \in present) :
                 present \in SubsetsUpTo(1..Len(FieldLines), maxFields)},
     form \in 1..Len(TagBlocks),
     tagFirst \in BOOLEAN}

\* analyzeModels(projectPath) called on a tree of TagTrees
InitTags ==
  /\ fs \in TagTrees(MaxFields)
  /\ RoutesAt("idle") /\ CompAt("idle") /\ ModelsAt("find") /\ DepsAt("idle") /\ MainAt("idle") /\ NoEntry

SpecTags == InitTags /\ [][NextModels]_vars

\* the entries a generated tree of the component pass may hold, in listing order
ComponentEntries ==
  <<File("components/Button.tsx",
         <<"\"use client\";", "import { Icon } from \"./Icon\"", "export function Button() {}">>),
    File("components/ui/Card.jsx", <<"export function Card() {}">>),
    File("components/util.ts", <<"export const x = 1;">>),
    File("components/button.tsx", <<"export function button() {}">>),
    File("app/page.tsx", <<"export default function Page() {}">>),
    File("app/Layout.tsx", <<"export default function Layout() {}">>),
    File("src/app/Nav.tsx", <<"'use client'", "export function Nav() {}">>),
    File("src/components/Modal.tsx", <<"export function Modal() {}">>),
    File("components/__tests__/Button.tsx", <<"export function Button() {}">>),
    File("lib/Widget.tsx", <<"export function Widget() {}">>),
    [path |-> "components/Button.tsx", kind |-> "file", lines |-> <<"">>, readable |-> FALSE],
    File("app", <<"a regular file">>)>>

\* the tree with the entries of ComponentEntries numbered in chosen
ComponentTree(chosen) ==
  LET order == SelectSeq([k \in 1..Len(ComponentEntries) |-> k], LAMBDA k : k \in chosen)
  IN MkTree([n \in 1..Len(order) |-> ComponentEntries[order[n]]])

\* the trees of the component pass: at most maxComponentFiles entries, no path twice and
\* no regular file above another entry
ComponentTrees(maxComponentFiles) ==
  {ComponentTree(chosen) :
     chosen \in {c \in SubsetsUpTo(1..Len(ComponentEntries), maxComponentFiles) :
                   \A a, b \in c :
                     a # b => /\ ComponentEntries[a].path # ComponentEntries[b].path
                              /\ ComponentEntries[a].path \notin Ancestors(ComponentEntries[b].path)}}

\* analyzeComponents(projectPath) called on a tree of ComponentTrees
InitComponents ==
  /\ fs \in ComponentTrees(MaxComponentFiles)
  /\ RoutesAt("idle") /\ CompAt("scan") /\ ModelsAt("idle") /\ DepsAt("idle") /\ MainAt("idle") /\ NoEntry

NextComponents == CompScanDir \/ CompSort

SpecComponents == InitComponents /\ [][NextComponents]_vars

\* the entries a generated project of analyzeCodebase may hold, in listing order
ProjectEntries ==
  <<File("app/api/users/route.ts", RouteTexts[2]),
    File("app/api/users/route.ts", RouteTexts[4]),
    [path |-> "app/api", kind |-> "dir", lines |-> <<>>, readable |-> TRUE],
    File("components/Button.tsx",
         <<"\"use client\";", "import { Icon } from \"./Icon\"", "export function Button() {}">>),
    File("components/util.ts", <<"import { Button } from \"./Button\"", "export const x = 1;">>),
    File("prisma/schema.prisma", SchemaText(<<"User", "Post">>, 1, {<<1, 2>>, <<2, 3>>})),
    File("prisma/schema.prisma", <<"generator client {", "  provider = \"prisma-client-js\"", "}">>),
    [path |-> "prisma/schema.prisma", kind |-> "file", lines |-> <<"">>, readable |-> FALSE],
    [path |-> "components/Button.tsx", kind |-> "file", lines |-> <<"">>, readable |-> FALSE],
    [path |-> "app/api/users/route.ts", kind |-> "file", lines |-> <<"">>, readable |-> FALSE],
    File("app/api/__tests__/route.ts", RouteTexts[1]),
    File("components/__mocks__/Card.tsx", <<"export function Card() {}">>),
    File("app", <<"a regular file">>),
    File("pages", <<"a regular file">>),
    File("src", <<"a regular file">>),
    File("README.md", <<"# demo">>),
    File("package.json", <<"{ \"name\": \"demo\" }">>)>>

\* the entries numbered in chosen can stand in one tree: no path twice, no regular file
\* above another entry
Compatible(chosen) ==
  \A a, b \in chosen :
    a # b => /\ ProjectEntries[a].path # ProjectEntries[b].path
             /\ ~(ProjectEntries[a].kind = "file"
                  /\ ProjectEntries[a].path \in Ancestors(ProjectEntries[b].path))

\* the tree with the entries of ProjectEntries numbered in chosen
ProjectTree(chosen) ==
  LET order == SelectSeq([k \in 1..Len(ProjectEntries) |-> k], LAMBDA k : k \in chosen)
  IN MkTree([n \in 1..Len(order) |-> ProjectEntries[order[n]]])

\* the projects of analyzeCodebase: at most maxEntries compatible entries
ProjectTrees(maxEntries) ==
  {ProjectTree(chosen) :
     chosen \in {c \in SubsetsUpTo(1..Len(ProjectEntries), maxEntries) : Compatible(c)}}

\* analyzeCodebase(projectPath) called on a tree of ProjectTrees
InitCodebase ==
  /\ fs \in ProjectTrees(MaxEntries)
  /\ RoutesAt("idle") /\ CompAt("idle") /\ ModelsAt("idle") /\ DepsAt("idle") /\ MainAt("start") /\ NoEntry

NextCodebase ==
  \/ MainStart
  \/ MainCallRoutes \/ RoutesScanDir \/ RoutesSort
  \/ MainCallComponents \/ CompScanDir \/ CompSort
  \/ MainCallModels \/ ModelsFind \/ ModelsParse \/ ModelsRelate
  \/ MainCallDeps \/ DepsFind \/ DepsNodes \/ DepsEdges \/ DepsFinish
  \/ MainJoin

SpecCodebase == InitCodebase /\ [][NextCodebase]_vars

\* analyzeCodebase(projectPath) called on a tree of ProjectTrees, and called once more
\* after it has returned
NextRerun == NextCodebase \/ MainAgain

SpecRerun == InitCodebase /\ [][NextRerun]_vars

\* the entries of ProjectEntries a project whose passes interleave may hold: the first
\* readable entry at each of the paths that feed a pass, the project name or a rejection
InterleavedChoices ==
  {k \in 1..Len(ProjectEntries) :
     /\ ProjectEntries[k].path \in {"app/api/users/route.ts", "components/Button.tsx",
                                    "components/util.ts", "prisma/schema.prisma", "app",
                                    "package.json"}
     /\ \A j \in 1..(k - 1) : ProjectEntries[j].path # ProjectEntries[k].path}

\* the projects whose passes interleave: at most maxEntries compatible entries
InterleavedTrees(maxEntries) ==
  {ProjectTree(chosen) :
     chosen \in {c \in SubsetsUpTo(InterleavedChoices, maxEntries) : Compatible(c)}}

\* analyzeCodebase(projectPath) called on a tree of InterleavedTrees with the steps of its
\* four passes in any order, and called once more after it has returned or rejected
InitInterleaved ==
  /\ fs \in InterleavedTrees(MaxInterleavedEntries)
  /\ RoutesAt("idle") /\ CompAt("idle") /\ ModelsAt("idle") /\ DepsAt("idle") /\ MainAt("start") /\ NoEntry

NextInterleaved ==
  \/ MainStart \/ MainCallAll
  \/ RoutesScanDir \/ RoutesSort
  \/ CompScanDir \/ CompSort
  \/ ModelsFind \/ ModelsParse \/ ModelsRelate
  \/ DepsFind \/ DepsNodes \/ DepsEdges \/ DepsFinish
  \/ MainJoin \/ MainAgain \/ MainRetry

SpecInterleaved == InitInterleaved /\ [][NextInterleaved]_vars

\* the name of directory d of a large tree
DirName(d) == "d" \o ToString(d)

\* the name of source file k of a directory of a large tree
ModuleName(k) == "m" \o ToString(k) \o ".ts"

\* A large tree: the directories d1..d<dirs> with FilesPerDir source files each; when
\* full, a.ts before them and node_modules/x.ts and z.ts after them.  a.ts imports d1/m1
\* and z, z.ts imports a, and the last file of the last directory imports d1/m1.
CapTree(dirs, full) ==
  LET top == (IF full THEN <<"a.ts">> ELSE <<>>)
               \o [d \in 1..dirs |-> DirName(d)]
               \o (IF full THEN <<"node_modules", "z.ts">> ELSE <<>>)
      mods == [k \in 1..FilesPerDir |-> ModuleName(k)]
      Dir(es) == [kind |-> "dir", entries |-> es, lines |-> <<>>, readable |-> TRUE]
      Src(ls) == [kind |-> "file", entries |-> <<>>, lines |-> ls, readable |-> TRUE]
      outer == [p \in {ProjectPath} \cup {Abs(top[k]) : k \in 1..Len(top)} |->
                  IF p = ProjectPath THEN Dir(top)
                  ELSE IF p = Abs("a.ts")
                       THEN Src(<<"import { m } from \"./d1/m1\"", "import z from \"./z\"">>)
                  ELSE IF p = Abs("z.ts") THEN Src(<<"import a from \"./a\"">>)
                  ELSE IF p = Abs("node_modules") THEN Dir(<<"x.ts">>)
                  ELSE Dir(mods)]
      inner == [p \in {Abs(DirName(d) \o "/" \o mods[k]) : d \in 1..dirs, k \in 1..FilesPerDir} |->
                  IF p = Abs(DirName(dirs) \o "/" \o ModuleName(FilesPerDir))
                  THEN Src(<<"import { m } from \"../d1/m1\"">>)
                  ELSE Src(<<"export const x = 1;">>)]
      ignored == IF full
                 THEN [p \in {Abs("node_modules/x.ts")} |-> Src(<<"export const x = 1;">>)]
                 ELSE <<>>
  IN outer @@ inner @@ ignored

\* the large trees: from one directory short of MAX_FILES source files to over directories
\* beyond it
CapTrees(over) ==
  {CapTree(dirs, full) :
     dirs \in ((MAX_FILES \div FilesPerDir) - 1)..((MAX_FILES \div FilesPerDir) + over),
     full \in BOOLEAN}

\* analyzeDependencies(projectPath) called on a tree of CapTrees
InitCap ==
  /\ fs \in CapTrees(MaxOverCap)
  /\ RoutesAt("idle") /\ CompAt("idle") /\ ModelsAt("idle") /\ DepsAt("find")
  /\ mainPc = "idle" /\ projectName = "" /\ analysis = NoData /\ previous = NoData /\ NoEntry

NextCap == DepsFind \/ DepsNodeStep \/ DepsEdgeStep \/ DepsFinish

SpecCap == InitCap /\ [][NextCap]_vars

\* the entries of ProjectEntries a project given to a run of the CLI may hold: the first
\* readable entry at each of the paths that feed a sub-result
CliChoices ==
  {k \in 1..Len(ProjectEntries) :
     /\ ProjectEntries[k].path \in {"app/api/users/route.ts", "components/Button.tsx",
                                    "prisma/schema.prisma"}
     /\ \A j \in 1..(k - 1) : ProjectEntries[j].path # ProjectEntries[k].path}

\* the projects given to a run of the CLI: at most maxEntries entries
CliTrees(maxEntries) ==
  {ProjectTree(chosen) : chosen \in SubsetsUpTo(CliChoices, maxEntries)}

\* the paths handed to an entry point: the project, the project with a trailing
\* separator, a regular file of some trees, a path that does not exist
PathInputs == {ProjectPath, ProjectPath \o "/", Abs("package.json"), Abs("README.md"), "/missing"}

\* the bodies of a request
Bodies ==
  {[json |-> "malformed", type |-> "undefined", value |-> ""],
   [json |-> "null", type |-> "undefined", value |-> ""],
   [json |-> "object", type |-> "undefined", value |-> ""],
   [json |-> "object", type |-> "number", value |-> ""],
   [json |-> "object", type |-> "string", value |-> ""]}
  \cup {[json |-> "object", type |-> "string", value |-> v] : v \in PathInputs}

\* the argument lists of the CLI
ArgLists == {<<>>} \cup {<<v>> : v \in PathInputs}

\* a request to POST /api/analyze or a run of the CLI, on a tree of ProjectTrees
InitEntry ==
  /\ fs \in ProjectTrees(MaxRequestEntries)
  /\ RoutesAt("idle") /\ CompAt("idle") /\ ModelsAt("idle") /\ DepsAt("idle")
  /\ mainPc = "idle" /\ projectName = "" /\ analysis = NoData /\ previous = NoData
  /\ \/ entryPoint = "POST" /\ input \in Bodies
     \/ entryPoint = "main" /\ input \in ArgLists
  /\ entryPc = "idle"
  /\ outcome = NoOutcome
  /\ outputDir = <<>>
  /\ runs = 1
  /\ fileRead = <<>>
  /\ store = InitialStore /\ folderPath = "" /\ handlers = <<>>

NextEntry == PostValidate \/ PostRespond \/ CliValidate \/ CliFinish \/ NextCodebase

SpecEntry == InitEntry /\ [][NextEntry]_vars

\* the entries a tree of a read-file request may hold: below the project directory /p and
\* outside it, with absolute paths
ReadEntries ==
  <<[path |-> "/p/a.ts", lines |-> <<"export const a = 1">>],
    [path |-> "/p/lib/foo.tsx", lines |-> <<"export const Foo = 2">>],
    [path |-> "/p/lib/index.ts", lines |-> <<"export * from './foo'">>],
    [path |-> "/p-secret/key.ts", lines |-> <<"export const key = 'k'">>],
    [path |-> "/p.ts", lines |-> <<"export const p = 3">>],
    [path |-> "/q.ts", lines |-> <<"export const q = 4">>],
    [path |-> "/etc/passwd", lines |-> <<"root:x:0:0">>]>>

\* the directories above an absolute path, the root left out
DirsAbove(p) ==
  LET parts == SplitOn(p, "/")
  IN {JoinWith(SubSeq(parts, 1, k), "/") : k \in 2..(Len(parts) - 1)}

\* the tree holding the project directory /p, the chosen entries of ReadEntries and the
\* directories above them
ReadTree(chosen) ==
  LET files == {ReadEntries[k].path : k \in chosen}
      dirs == {ProjectPath} \cup UNION {DirsAbove(f) : f \in files}
      Below(d) == SelectSeq([k \in 1..Len(ReadEntries) |-> ReadEntries[k].path],
                            LAMBDA f : f \in files /\ StartsWith(f, d \o "/"))
      Listing(d) == LET b == Below(d)
                    IN Dedup([k \in 1..Len(b) |-> SplitOn(b[k], "/")[Len(SplitOn(d, "/")) + 1]])
  IN [p \in files \cup dirs |->
        IF p \in files
        THEN [kind |-> "file", entries |-> <<>>, readable |-> TRUE,
              lines |-> ReadEntries[CHOOSE k \in chosen : ReadEntries[k].path = p].lines]
        ELSE [kind |-> "dir", lines |-> <<>>, readable |-> TRUE,
              entries |-> Listing(p)]]

ReadTrees(maxEntries) ==
  {ReadTree(chosen) : chosen \in SubsetsUpTo(1..Len(ReadEntries), maxEntries)}

\* the bodies of the read-file requests
ReadRequests ==
  [filePath : {"", "a.ts", "a", "lib", "lib/foo", ".", "missing", "/p/a.ts", "../p-secret/key.ts",
               "/p-secret/key", "../p.ts", "/etc/passwd", "lib/../../etc/passwd"},
   projectPath : {"", ProjectPath, ProjectPath \o "/", "/q"}]

InitReadFile ==
  /\ fs \in ReadTrees(MaxReadEntries)
  /\ RoutesAt("idle") /\ CompAt("idle") /\ ModelsAt("idle") /\ DepsAt("idle")
  /\ mainPc = "idle" /\ projectName = "" /\ analysis = NoData /\ previous = NoData
  /\ entryPoint = "readFile" /\ input \in ReadRequests
  /\ entryPc = "idle"
  /\ outcome = NoOutcome
  /\ outputDir = <<>> /\ runs = 0 /\ fileRead = <<>>
  /\ store = InitialStore /\ folderPath = "" /\ handlers = <<>>

NextReadFile == ReadFileValidate \/ ReadFileServe

SpecReadFile == InitReadFile /\ [][NextReadFile]_vars

\* the folder picker after mounting: the store as constructed, the path input empty
InitPicker ==
  /\ fs = MkTree(<<>>)
  /\ RoutesAt("idle") /\ CompAt("idle") /\ ModelsAt("idle") /\ DepsAt("idle")
  /\ mainPc = "idle" /\ projectName = "" /\ analysis = NoData /\ previous = NoData
  /\ entryPoint = "picker" /\ input = <<>>
  /\ entryPc = "idle"
  /\ outcome = NoOutcome
  /\ outputDir = <<>> /\ runs = 0 /\ fileRead = <<>>
  /\ store = InitialStore /\ folderPath = "" /\ handlers = <<>>

NextPicker == TypePath \/ ClickAnalyze \/ PressEnter \/ ClickLoadFromFile \/ FetchSettle

SpecPicker == InitPicker /\ [][NextPicker]_vars

\* a further run of the CLI in a new process, on the project that now stands at the
\* project path; the output directory is what the earlier runs left
CliAgain ==
  /\ entryPoint = "main"
  /\ entryPc = "done"
  /\ outcome = Exit(0)
  /\ runs < MaxRuns
  /\ runs' = runs + 1
  /\ fs' \in CliTrees(MaxCliEntries)
  /\ entryPc' = "idle"
  /\ outcome' = NoOutcome
  /\ routesPc' = "idle" /\ apiDirIdx' = 1 /\ routes' = <<>> /\ routeData' = NoData
  /\ compPc' = "idle" /\ compDirIdx' = 1 /\ components' = <<>> /\ directoryMap' = <<>>
  /\ componentData' = NoData
  /\ modelsPc' = "idle" /\ schemaPath' = "" /\ parsed' = [models |-> <<>>, modelNames |-> <<>>]
  /\ modelData' = NoData
  /\ depsPc' = "idle" /\ sourceFiles' = <<>> /\ fileIdx' = 1 /\ nodes' = <<>> /\ nodeMap' = <<>>
  /\ clusterMap' = <<>> /\ edges' = <<>> /\ dependencies' = NoData
  /\ mainPc' = "idle" /\ projectName' = "" /\ analysis' = NoData
  /\ UNCHANGED <<entryPoint, input, outputDir, fileRead, uiVars, previous>>

\* successive runs of the CLI on projects of CliTrees, the output directory empty at first
InitCli ==
  /\ fs \in CliTrees(MaxCliEntries)
  /\ RoutesAt("idle") /\ CompAt("idle") /\ ModelsAt("idle") /\ DepsAt("idle")
  /\ mainPc = "idle" /\ projectName = "" /\ analysis = NoData /\ previous = NoData
  /\ entryPoint = "main" /\ input = <<ProjectPath>>
  /\ entryPc = "idle"
  /\ outcome = NoOutcome
  /\ outputDir = <<>>
  /\ runs = 1
  /\ fileRead = <<>>
  /\ store = InitialStore /\ folderPath = "" /\ handlers = <<>>

NextCli == CliValidate \/ CliFinish \/ CliAgain \/ NextCodebase

SpecCli == InitCli /\ [][NextCli]_vars

-----------------------------------------------------------------------------
(* Properties of the dependency graph *)

\* the node id analyzeDependencies gives the source file at absolute path filePath
IdOf(filePath) == NodeId(PathRelative(ProjectPath, filePath))

\* the targets of the static import declarations of a text: a line whose first token is
\* import and whose last token is a quoted module specifier declares that specifier
DeclaredImports(lines) ==
  {QuotedPrefix(toks[Len(toks)]) :
     toks \in {NonEmpty(SplitOn(lines[i], " ")) : i \in 1..Len(lines)} \cap
              {t \in {NonEmpty(SplitOn(lines[i], " ")) : i \in 1..Len(lines)} :
                 Len(t) >= 2 /\ t[1] = "import" /\ Len(QuotedPrefix(t[Len(t)])) > 0}}

\* file x holds a relative (./, ../) or alias-rooted (@/) import that resolves to file y
ImportsFile(x, y) ==
  \E target \in DeclaredImports(ReadFileSync(x)) :
     /\ StartsWith(target, "./") \/ StartsWith(target, "../") \/ StartsWith(target, "@/")
     /\ ResolveImportPath(target, x, ProjectPath) = y

HasEdge(es, s, t) == \E i \in 1..Len(es) : es[i].source = s /\ es[i].target = t

\* C1: for any two source nodes X and Y, the emitted edge list holds (id(X), id(Y)) if and
\* only if X and Y are different files and X's content holds a relative or alias-rooted
\* import whose target resolves to Y's file.
C1_EdgeIffResolvableImport ==
  depsPc = "done" =>
    \A i, j \in 1..Len(sourceFiles) :
      HasEdge(dependencies.edges, IdOf(sourceFiles[i]), IdOf(sourceFiles[j]))
        <=> (sourceFiles[i] # sourceFiles[j] /\ ImportsFile(sourceFiles[i], sourceFiles[j]))

\* C2: any two distinct source files accepted by the traversal receive distinct node ids.
C2_NodeIdsInjective ==
  depsPc = "done" =>
    \A i, j \in 1..Len(dependencies.nodes) :
      i # j => dependencies.nodes[i].id # dependencies.nodes[j].id

\* C3: in every emitted dependency graph each edge's source and target are ids of nodes of
\* the same graph, no edge has its source equal to its target, and no ordered
\* (source, target) pair occurs more than once in the edge list.
C3_EdgesWellFormed ==
  depsPc = "done" =>
    LET ids == {dependencies.nodes[i].id : i \in 1..Len(dependencies.nodes)}
        es == dependencies.edges
    IN /\ \A i \in 1..Len(es) : es[i].source \in ids /\ es[i].target \in ids
       /\ \A i \in 1..Len(es) : es[i].source # es[i].target
       /\ \A i, j \in 1..Len(es) :
            (es[i].source = es[j].source /\ es[i].target = es[j].target) => i = j

\* C3 witness: a graph is emitted with an edge, after a repeated edge was collapsed
C3_Witness ==
  /\ depsPc = "done"
  /\ Len(dependencies.edges) >= 1
  /\ Len(edges) > Len(dependencies.edges)

-----------------------------------------------------------------------------
(* Properties of the route list *)

\* the route-handler files of the tree: the files named route.ts or route.js beneath one
\* of the API directories
RouteHandlerFiles ==
  {p \in DOMAIN fs :
     /\ fs[p].kind = "file"
     /\ LastSegment(p) \in {"route.ts", "route.js"}
     /\ \E k \in 1..Len(PossibleApiDirs(ProjectPath)) :
          StartsWith(p, PossibleApiDirs(ProjectPath)[k] \o "/")}

\* the positions in the emitted list of the records of route file p
RecordsOf(p) ==
  {i \in 1..Len(routeData.routes) : routeData.routes[i].file = PathRelative(ProjectPath, p)}

\* the distinct HTTP methods detected in the content of route file p
DetectedMethods(p) ==
  {m \in {HTTP_METHODS[k] : k \in 1..Len(HTTP_METHODS)} :
     FunctionPattern(Tokens(ReadFileSync(p)), m) \/ ConstPattern(Tokens(ReadFileSync(p)), m)}

\* C4: for every readable route-handler file the number of emitted records equals the
\* number of distinct detected HTTP methods, one record per method, all with the same path
\* and feature; a file without a detected method emits no record.
C4_OneRecordPerMethod ==
  routesPc = "done" =>
    \A p \in RouteHandlerFiles :
      fs[p].readable =>
        /\ Cardinality(RecordsOf(p)) = Cardinality(DetectedMethods(p))
        /\ {routeData.routes[i].method : i \in RecordsOf(p)} = DetectedMethods(p)
        /\ \A i, j \in RecordsOf(p) :
             /\ routeData.routes[i].path = routeData.routes[j].path
             /\ routeData.routes[i].feature = routeData.routes[j].feature

\* C4 witness: a file exporting GET and POST has yielded exactly two records, and a file
\* without a detected method none
C4_Witness ==
  /\ routesPc = "done"
  /\ \E p \in RouteHandlerFiles :
       /\ fs[p].readable
       /\ DetectedMethods(p) = {"GET", "POST"}
       /\ Cardinality(RecordsOf(p)) = 2
  /\ \E p \in RouteHandlerFiles :
       /\ fs[p].readable
       /\ DetectedMethods(p) = {}
       /\ RecordsOf(p) = {}

\* C5: the emitted route list is ordered by path, ties broken by method, and any two
\* distinct emitted records are strictly ordered by (path, method).
C5_RoutesStrictlyOrdered ==
  routesPc = "done" =>
    \A i, j \in 1..Len(routeData.routes) :
      i < j =>
        \/ LocaleCompare(routeData.routes[i].path, routeData.routes[j].path) < 0
        \/ /\ LocaleCompare(routeData.routes[i].path, routeData.routes[j].path) = 0
           /\ LocaleCompare(routeData.routes[i].method, routeData.routes[j].method) < 0

-----------------------------------------------------------------------------
(* Properties of the schema *)

\* the entity names declared anywhere in the schema text
DeclaredNames ==
  {ModelHead(ReadFileSync(schemaPath)[i]) : i \in 1..Len(ReadFileSync(schemaPath))} \ {""}

\* C6: for every field of every entity, isRelation is true if and only if the field's type,
\* with a trailing [] and then a trailing ? stripped, equals one of the entity names of the
\* schema, also when that entity is declared later in the file.
C6_RelationIffDeclaredEntity ==
  modelsPc = "done" /\ ~modelData.isNull =>
    \A m \in 1..Len(modelData.models) :
      \A f \in 1..Len(modelData.models[m].fields) :
        LET field == modelData.models[m].fields[f]
        IN /\ field.isRelation <=> field.type \in DeclaredNames
           /\ ~EndsWith(field.type, "[]") /\ ~EndsWith(field.type, "?")

\* C6 witness: a field of the first entity is a relation to an entity declared after it
C6_Witness ==
  /\ modelsPc = "done"
  /\ ~modelData.isNull
  /\ Len(modelData.models) >= 2
  /\ \E f \in 1..Len(modelData.models[1].fields) :
       /\ modelData.models[1].fields[f].isRelation
       /\ modelData.models[1].fields[f].type = modelData.models[2].name

\* the relation fields of the parsed schema as <<model position, field position>>
RelationFields ==
  {mf \in UNION {{<<m, f>> : f \in 1..Len(modelData.models[m].fields)} : m \in 1..Len(modelData.models)} :
     modelData.models[mf[1]].fields[mf[2]].isRelation}

\* the unordered pair of entity names relation field mf connects
PairOfField(mf) == {modelData.models[mf[1]].name, modelData.models[mf[1]].fields[mf[2]].type}

\* relation field a comes before relation field b in declaration order
DeclaredBefore(a, b) == a[1] < b[1] \/ (a[1] = b[1] /\ a[2] < b[2])

\* C7: the relationship list holds at most one record per unordered pair of entity names,
\* exactly one for every pair with a relation field between them, and that record is the
\* one of the first relation field of the pair in declaration order.
C7_OneRelationshipPerPair ==
  modelsPc = "done" /\ ~modelData.isNull =>
    LET rs == modelData.relationships
    IN /\ \A i, j \in 1..Len(rs) : {rs[i].from, rs[i].to} = {rs[j].from, rs[j].to} => i = j
       /\ \A mf \in RelationFields :
            \E i \in 1..Len(rs) :
              /\ {rs[i].from, rs[i].to} = PairOfField(mf)
              /\ (\A other \in RelationFields : PairOfField(other) = PairOfField(mf) => ~DeclaredBefore(other, mf))
                   => /\ rs[i].from = modelData.models[mf[1]].name
                      /\ rs[i].to = modelData.models[mf[1]].fields[mf[2]].type
                      /\ rs[i].fieldName = modelData.models[mf[1]].fields[mf[2]].name
       /\ \A i \in 1..Len(rs) : \E mf \in RelationFields : PairOfField(mf) = {rs[i].from, rs[i].to}

\* C7 witness: two entities with relation fields in both directions and one record
C7_Witness ==
  /\ modelsPc = "done"
  /\ ~modelData.isNull
  /\ \E a, b \in RelationFields :
       /\ a[1] # b[1]
       /\ modelData.models[a[1]].fields[a[2]].type = modelData.models[b[1]].name
       /\ modelData.models[b[1]].fields[b[2]].type = modelData.models[a[1]].name
       /\ Cardinality({i \in 1..Len(modelData.relationships) :
                         {modelData.relationships[i].from, modelData.relationships[i].to} = PairOfField(a)}) = 1

\* C8: when entity A has an array relation field f of type B, entity B has a non-array
\* relation field of type A and there is no other relation field between A and B, the one
\* record of the pair is {from A, to B, one-to-many, f}, whichever entity is declared first.
C8_OneToManyWhicheverFirst ==
  modelsPc = "done" /\ ~modelData.isNull =>
    \A a, b \in RelationFields :
      LET A == modelData.models[a[1]]
          B == modelData.models[b[1]]
          fa == A.fields[a[2]]
          fb == B.fields[b[2]]
      IN (/\ A.name # B.name
          /\ fa.type = B.name /\ fa.isArray
          /\ fb.type = A.name /\ ~fb.isArray
          /\ \A other \in RelationFields : PairOfField(other) = {A.name, B.name} => other \in {a, b})
         => \E i \in 1..Len(modelData.relationships) :
              /\ modelData.relationships[i] =
                   [from |-> A.name, to |-> B.name, type |-> "one-to-many", fieldName |-> fa.name]
              /\ \A j \in 1..Len(modelData.relationships) :
                   {modelData.relationships[j].from, modelData.relationships[j].to} = {A.name, B.name}
                     => j = i

-----------------------------------------------------------------------------
(* Properties of the analysis result *)

\* path p is an existing directory
IsDirectory(p) == OsPath(p) \in DOMAIN fs /\ fs[OsPath(p)].kind = "dir"

\* one of the API directories exists
ApiDirExists ==
  \E k \in 1..Len(PossibleApiDirs(ProjectPath)) : IsDirectory(PossibleApiDirs(ProjectPath)[k])

\* one of the component directories exists
ComponentDirExists ==
  \E k \in 1..Len(PossibleComponentDirs(ProjectPath)) : IsDirectory(PossibleComponentDirs(ProjectPath)[k])

\* a schema file exists at one of the conventional locations
SchemaFileExists ==
  \E k \in 1..Len(PRISMA_SCHEMA_PATHS) :
    LET p == PathJoin(ProjectPath, PRISMA_SCHEMA_PATHS[k])
    IN p \in DOMAIN fs /\ fs[p].kind = "file"

\* the schema pass has no entity to report
NoEntities == IF modelData.isNull THEN TRUE ELSE Len(modelData.models) = 0

\* C9: in the returned AnalysisResult each of the four sub-results is null whenever its
\* source artifact does not exist or it would hold zero records, and non-null otherwise.
C9_NullIffNoRecords ==
  mainPc = "returned" =>
    /\ analysis.routes.isNull <=> (~ApiDirExists \/ Len(routeData.routes) = 0)
    /\ analysis.components.isNull <=> (~ComponentDirExists \/ Len(componentData.components) = 0)
    /\ analysis.models.isNull <=> (~SchemaFileExists \/ NoEntities)
    /\ analysis.dependencies.isNull <=> Len(dependencies.nodes) = 0

\* C10: for a project without API directory, component directory and schema file,
\* analyzeCodebase raises no error and returns routes, components and schema null.
C10_EmptyProjectNeverThrows ==
  (~ApiDirExists /\ ~ComponentDirExists /\ ~SchemaFileExists) =>
    /\ mainPc # "threw"
    /\ mainPc = "returned" =>
         analysis.routes.isNull /\ analysis.components.isNull /\ analysis.models.isNull

Contribution(data, records) == IF records = <<>> THEN NoData ELSE data

\* C12: when one of the four passes fails, analyzeCodebase still completes and returns an
\* AnalysisResult holding the results of the other passes.
C12_PartialFailureTolerated ==
  (mainPc \in {"returned", "threw"} /\ "threw" \in {routesPc, compPc, modelsPc, depsPc}) =>
    /\ mainPc = "returned"
    /\ routesPc = "done" => analysis.routes = Contribution(routeData, routeData.routes)
    /\ compPc = "done" => analysis.components = Contribution(componentData, componentData.components)
    /\ modelsPc = "done" => analysis.models = modelData
    /\ depsPc = "done" => analysis.dependencies = Contribution(dependencies, dependencies.nodes)

\* the regular files of the tree that cannot be read
UnreadableFiles == {p \in DOMAIN fs : fs[p].kind = "file" /\ ~fs[p].readable}

\* C13: a file whose read fails contributes nothing to any record: no RouteRecord, no
\* ComponentRecord, no SourceNode and no ImportEdge that has it as an endpoint.
C13_UnreadableFileContributesNothing ==
  /\ routesPc = "done" =>
        \A k \in 1..Len(routeData.routes) : Abs(routeData.routes[k].file) \notin UnreadableFiles
  /\ compPc = "done" =>
        \A k \in 1..Len(componentData.components) :
          Abs(componentData.components[k].path) \notin UnreadableFiles
  /\ depsPc = "done" =>
        \A p \in UnreadableFiles :
          /\ p \notin DOMAIN nodeMap
          /\ \A k \in 1..Len(dependencies.nodes) : dependencies.nodes[k].id # IdOf(p)
          /\ \A k \in 1..Len(dependencies.edges) :
               IdOf(p) \notin {dependencies.edges[k].source, dependencies.edges[k].target}

\* the files beneath the API directory api (an element of possibleApiDirs)
FilesBeneath(api) == {p \in DOMAIN fs : fs[p].kind = "file" /\ StartsWith(p, api \o "/")}

\* the handler files of the App Router: app/api/**/route.ts (or route.js)
AppRouterFiles ==
  {p \in FilesBeneath(PossibleApiDirs(ProjectPath)[1]) \cup FilesBeneath(PossibleApiDirs(ProjectPath)[2]) :
     LastSegment(p) \in {"route.ts", "route.js"}}

\* the handler files of the Pages Router: pages/api/**, every script file
PagesRouterFiles ==
  {p \in FilesBeneath(PossibleApiDirs(ProjectPath)[3]) \cup FilesBeneath(PossibleApiDirs(ProjectPath)[4]) :
     PathExtname(p) \in {".ts", ".js"}}

\* C14: every readable handler file of either router that exports an HTTP method handler
\* yields RouteRecords: app/api/**/route.ts and any file at any depth under pages/api.
C14_BothRoutersReported ==
  routesPc = "done" =>
    \A p \in AppRouterFiles \cup PagesRouterFiles :
      (fs[p].readable /\ DetectedMethods(p) # {}) => RecordsOf(p) # {}

\* the segments s1..sn of a route-handler file [src/]{app|pages}/api/s1/.../sn/route.ts
SegmentsOf(p) ==
  LET parts == SplitOn(PathRelative(ProjectPath, p), "/")
      apiAt == IF parts[1] = "src" THEN 3 ELSE 2
  IN SubSeq(parts, apiAt + 1, Len(parts) - 1)

\* the text holds no vocabulary of an auth guard
NoGuardText(content) ==
  LET text == ToLowerCase(JoinWith(content, "\n"))
  IN \A w \in {"auth", "admin", "session", "currentuser"} : ~Includes(text, w)

\* C15: the records of a route-handler file [src/]{app|pages}/api/s1/.../sn/route.ts with
\* n >= 1 have path /api/s1/.../sn and feature s1; every emitted feature is non-empty; the
\* records of a file without auth-guard text have auth public.
C15_PathFeatureAuth ==
  routesPc = "done" =>
    /\ \A k \in 1..Len(routeData.routes) : Len(routeData.routes[k].feature) > 0
    /\ \A p \in RouteHandlerFiles : \A k \in RecordsOf(p) :
         /\ Len(SegmentsOf(p)) >= 1 =>
              /\ routeData.routes[k].path = "/api/" \o JoinWith(SegmentsOf(p), "/")
              /\ routeData.routes[k].feature = SegmentsOf(p)[1]
         /\ NoGuardText(ReadFileSync(p)) => routeData.routes[k].auth = "public"

\* records were emitted for a handler two segments below the API directory and for one
\* directly in it
C15_Witness ==
  /\ routesPc = "done"
  /\ \E p \in RouteHandlerFiles :
       /\ Len(SegmentsOf(p)) = 2
       /\ NoGuardText(ReadFileSync(p))
       /\ RecordsOf(p) # {}
  /\ \E p \in RouteHandlerFiles : Len(SegmentsOf(p)) = 0 /\ RecordsOf(p) # {}

\* the path given to the entry point, "" when none or not a string
GivenPath ==
  IF entryPoint = "POST"
  THEN IF input.json = "object" /\ input.type = "string" THEN input.value ELSE ""
  ELSE IF Len(input) > 0 THEN input[1] ELSE ""

\* the given path is missing, not a string, does not exist or is not a directory
InvalidRequest ==
  \/ Len(GivenPath) = 0
  \/ OsPath(GivenPath) \notin DOMAIN fs
  \/ fs[OsPath(GivenPath)].kind # "dir"

\* analyzeCodebase or one of its passes has begun
ScanningBegun == mainPc # "idle" \/ {routesPc, compPc, modelsPc, depsPc} # {"idle"}

\* C16: for both entry points analyzeCodebase is invoked only for a path that exists and is
\* a directory; a request whose path is missing, not a string, non-existent or not a
\* directory is rejected before any scanning, by the endpoint with a 4xx response and by
\* the CLI with exit code 1.
C16_ValidatedBeforeScanning ==
  /\ ScanningBegun => ~InvalidRequest
  /\ (InvalidRequest /\ entryPc = "done") =>
        /\ ~ScanningBegun
        /\ entryPoint = "POST" => (outcome.kind = "response" /\ outcome.code \in 400..499)
        /\ entryPoint = "main" => outcome = Exit(1)

\* the eligible source files of the tree: a source extension, not beneath an ignored
\* directory
EligibleSourceFiles ==
  {p \in DOMAIN fs :
     /\ fs[p].kind = "file"
     /\ PathExtname(LastSegment(p)) \in {SOURCE_EXTENSIONS[k] : k \in 1..Len(SOURCE_EXTENSIONS)}
     /\ \A d \in Ancestors(PathRelative(ProjectPath, p)) :
          Len(d) > 0 => ~InSeq(IGNORED_DIRS, LastSegment(d))}

\* the elements of a sequence
Range(q) == {q[k] : k \in 1..Len(q)}

\* C17: the graph never holds more than 500 nodes; with at most 500 eligible source files
\* every one is a node; with more, exactly 500 are accepted, and every accepted file has
\* its node and has its imports scanned for edges.
C17_CapRespected ==
  /\ Len(sourceFiles) <= MAX_FILES
  /\ Len(nodes) <= MAX_FILES
  /\ depsPc = "done" =>
       /\ Len(dependencies.nodes) =
            IF Cardinality(EligibleSourceFiles) <= MAX_FILES
            THEN Cardinality(EligibleSourceFiles) ELSE MAX_FILES
       /\ Cardinality(EligibleSourceFiles) <= MAX_FILES => EligibleSourceFiles = Range(sourceFiles)
       /\ Len(dependencies.nodes) = Len(sourceFiles)
       /\ \A k \in 1..Len(sourceFiles) :
            /\ sourceFiles[k] \in EligibleSourceFiles
            /\ dependencies.nodes[k].id = IdOf(sourceFiles[k])
            /\ Range(FileEdges(sourceFiles[k], nodeMap)) \subseteq Range(dependencies.edges)

\* the pass is done on a tree with more than MAX_FILES eligible files, and the accepted
\* a.ts has its edge
C17_Witness ==
  /\ depsPc = "done"
  /\ Cardinality(EligibleSourceFiles) > MAX_FILES
  /\ Len(dependencies.nodes) = MAX_FILES
  /\ [source |-> "a", target |-> "d1_m1"] \in Range(dependencies.edges)

\* the files beneath a directory whose name is on the ignore-list
FilesBeneathIgnored ==
  {p \in DOMAIN fs :
     /\ fs[p].kind = "file"
     /\ \E d \in Ancestors(PathRelative(ProjectPath, p)) :
          Len(d) > 0 /\ InSeq(IGNORED_DIRS, LastSegment(d))}

\* C18: no file beneath a directory on the ignore-list is returned by any of the three
\* traversals: it yields no RouteRecord, no ComponentRecord and no SourceNode.
C18_IgnoredDirectoriesSkipped ==
  \A p \in FilesBeneathIgnored :
    /\ \A k \in 1..Len(routes) : routes[k].file # PathRelative(ProjectPath, p)
    /\ \A k \in 1..Len(components) : components[k].path # PathRelative(ProjectPath, p)
    /\ p \notin Range(sourceFiles)
    /\ p \notin DOMAIN nodeMap

ComponentRoots == <<"components", "src/components", "app", "src/app">>

\* the readable files that lie under a component root, not beneath an ignored directory,
\* with extension .tsx or .jsx and a base name that starts with an uppercase letter
QualifyingFiles ==
  {p \in DOMAIN fs :
     /\ fs[p].kind = "file"
     /\ fs[p].readable
     /\ \E k \in 1..Len(ComponentRoots) : StartsWith(p, Abs(ComponentRoots[k]) \o "/")
     /\ p \notin FilesBeneathIgnored
     /\ EndsWith(p, ".tsx") \/ EndsWith(p, ".jsx")
     /\ Ch(LastSegment(p), 1) \in UpperCaseChars}

\* the ComponentRecords the component pass has emitted: those of the ComponentData it
\* returned, none when it rejected
EmittedComponents == IF compPc = "done" THEN componentData.components ELSE <<>>

\* C20: the component pass emits exactly one ComponentRecord for each readable file under
\* components, src/components, app or src/app that is not beneath an ignored directory,
\* has extension .tsx or .jsx and a base name starting with an uppercase letter; it emits
\* no record for any other file and never two records for the same file.
C20_OneRecordPerComponentFile ==
  Settled(compPc) =>
    /\ \A p \in DOMAIN fs :
         Cardinality({k \in 1..Len(EmittedComponents) : Abs(EmittedComponents[k].path) = p})
           = IF p \in QualifyingFiles THEN 1 ELSE 0
    /\ \A k \in 1..Len(EmittedComponents) : Abs(EmittedComponents[k].path) \in DOMAIN fs

\* the emitted entity with the given name
EntityNamed(name) ==
  modelData.models[CHOOSE k \in 1..Len(modelData.models) : modelData.models[k].name = name]

\* the position in entity a of its first relation field that points to the entity named b
FirstFieldTo(a, b) ==
  CHOOSE k \in 1..Len(a.fields) :
    /\ a.fields[k].isRelation /\ a.fields[k].type = b
    /\ \A j \in 1..(k - 1) : ~(a.fields[j].isRelation /\ a.fields[j].type = b)

\* the positions in the entity named b of the relation fields that point back to the entity
\* named a, the field at position k of a itself left out
ReversePositions(a, k, b) ==
  {j \in 1..Len(EntityNamed(b).fields) :
     /\ EntityNamed(b).fields[j].isRelation
     /\ EntityNamed(b).fields[j].type = a
     /\ ~(a = b /\ j = k)}

\* the cardinality of the relation field at position k of entity a, from that field and
\* the first reverse field
ExpectedCardinality(a, k) ==
  LET f == a.fields[k]
      back == ReversePositions(a.name, k, f.type)
      first == CHOOSE j \in back : \A m \in back : j <= m
  IN IF ~f.isArray THEN "one-to-one"
     ELSE IF back # {} /\ EntityNamed(f.type).fields[first].isArray THEN "many-to-many"
     ELSE "one-to-many"

\* C21: the cardinality of every recorded relationship is decided from the first relation
\* field f of A that points to B: one-to-one when f is not an array, many-to-many when f is
\* an array and the reverse field of B is an array, one-to-many otherwise; a field is not
\* its own reverse field, so a single array self-reference is one-to-many.
C21_CardinalityFromFirstField ==
  (modelsPc = "done" /\ ~modelData.isNull) =>
    \A r \in 1..Len(modelData.relationships) :
      LET rel == modelData.relationships[r]
          a == EntityNamed(rel.from)
      IN rel.type = ExpectedCardinality(a, FirstFieldTo(a, rel.to))

\* the importing file of an import-resolution tree
ImportingFile == Abs("lib/foo.ts")

\* the import target of the importing file
ImportTarget == CHOOSE t \in DeclaredImports(fs[ImportingFile].lines) : TRUE

\* the path p of the import target: against the project root for an @/ target, against the
\* directory of the importing file otherwise
TargetBase ==
  IF StartsWith(ImportTarget, "@/")
  THEN ProjectPath \o "/" \o SubSeq(ImportTarget, 3, Len(ImportTarget))
  ELSE PathResolve(ProjectPath \o "/lib", ImportTarget)

\* the candidates p, p.ts, p.tsx, p.js, p.jsx, p/index.ts, p/index.tsx, p/index.js, p/index.jsx
CandidatesOf(p) ==
  <<p, p \o ".ts", p \o ".tsx", p \o ".js", p \o ".jsx",
    p \o "/index.ts", p \o "/index.tsx", p \o "/index.js", p \o "/index.jsx">>

\* the first candidate of p that is a regular file of the tree, "" when none is
FirstRegularFile(p) ==
  LET files == {k \in 1..Len(CandidatesOf(p)) :
                  CandidatesOf(p)[k] \in DOMAIN fs /\ fs[CandidatesOf(p)[k]].kind = "file"}
  IN IF files = {} THEN "" ELSE CandidatesOf(p)[CHOOSE k \in files : \A m \in files : k <= m]

\* C22: an import target p resolves to the first existing regular file among p, p.ts, p.tsx,
\* p.js, p.jsx, p/index.ts, p/index.tsx, p/index.js, p/index.jsx; a directory at a candidate
\* path is not a hit; without a hit the import yields no edge and no error, with a hit it
\* yields exactly one edge from the importing file's node to the resolved file's node.
C22_FirstRegularFileWins ==
  /\ depsPc # "threw"
  /\ ResolveImportPath(ImportTarget, ImportingFile, ProjectPath) = FirstRegularFile(TargetBase)
  /\ depsPc = "done" =>
       dependencies.edges =
         IF FirstRegularFile(TargetBase) = "" THEN <<>>
         ELSE <<[source |-> "lib_foo", target |-> IdOf(FirstRegularFile(TargetBase))]>>

\* lib/foo.ts imports @/lib/bar, lib/bar.ts is a directory and lib/bar.tsx a file: the one
\* edge goes to the node of lib/bar.tsx
C22_Witness ==
  /\ depsPc = "done"
  /\ ImportTarget = "@/lib/bar"
  /\ Abs("lib/bar.ts") \in DOMAIN fs
  /\ fs[Abs("lib/bar.ts")].kind = "dir"
  /\ Abs("lib/bar.tsx") \in DOMAIN fs
  /\ Len(dependencies.edges) = 1

\* the admin-indicating substrings
AdminMarks == {"requireadmin", "isadmin", "role === 'admin'", "role === \"admin\""}

\* the protected-indicating substrings
ProtectedMarks ==
  {"getauthenticateduser", "auth.protect", "requireauth", "getserversession", "currentuser",
   "unauthorized"}

\* some substring of marks occurs in the lowercased content of file p
HasMark(p, marks) ==
  \E w \in marks : Includes(ToLowerCase(JoinWith(fs[p].lines, "\n")), w)

\* C23: the authTier of a route file is decided in strict priority order on the lowercased
\* content: admin when an admin-indicating substring occurs, protected substrings or not;
\* otherwise protected when a protected-indicating substring occurs; otherwise public; every
\* RouteRecord of the file carries that one tier.
C23_AuthTierPriority ==
  routesPc = "done" =>
    \A p \in RouteHandlerFiles : \A k \in RecordsOf(p) :
      routeData.routes[k].auth =
        IF HasMark(p, AdminMarks) THEN "admin"
        ELSE IF HasMark(p, ProtectedMarks) THEN "protected"
        ELSE "public"

\* a handler file holding both an admin and a protected substring has yielded two records,
\* next to a public file
C23_Witness ==
  /\ routesPc = "done"
  /\ \E p \in RouteHandlerFiles :
       /\ HasMark(p, AdminMarks) /\ HasMark(p, ProtectedMarks)
       /\ Cardinality(RecordsOf(p)) = 2
  /\ \E k \in 1..Len(routeData.routes) : routeData.routes[k].auth = "public"

\* the number of newline characters in the content of the file at absolute path p
NewlinesIn(p) ==
  LET text == JoinWith(fs[p].lines, "\n")
  IN Cardinality({i \in 1..Len(text) : Ch(text, i) = "\n"})

\* C24: for every ComponentRecord, lineCount equals the number of newline characters in the
\* file's content: 0 for a content without a newline, k for one with k newlines.
C24_LineCountIsNewlineCount ==
  compPc = "done" =>
    \A k \in 1..Len(componentData.components) :
      componentData.components[k].linesOfCode = NewlinesIn(Abs(componentData.components[k].path))

\* the derived directory label of the discovered source file at absolute path p
LabelOf(p) == GetClusterLabel(PathDirname(PathRelative(ProjectPath, p)))

\* the discovered source files that share the derived directory label
FilesLabelled(label) == {p \in Range(sourceFiles) : LabelOf(p) = label}

\* C25: the emitted clusters are exactly the groups of SourceNodes that share a derived
\* directory label and have more than one member: every cluster has at least two node ids,
\* every label shared by two or more discovered files is emitted as a cluster, each node id
\* belongs to at most one cluster, and the clusters are in non-increasing order of size.
C25_ClustersAreSharedLabels ==
  depsPc = "done" =>
    LET cs == dependencies.clusters
    IN /\ \A k \in 1..Len(cs) : Len(cs[k].nodeIds) >= 2
       /\ \A k \in 1..Len(cs) :
            Range(cs[k].nodeIds) = {IdOf(p) : p \in FilesLabelled(cs[k].label)}
       /\ \A p \in Range(sourceFiles) :
            Cardinality(FilesLabelled(LabelOf(p))) >= 2 =>
              \E k \in 1..Len(cs) : cs[k].label = LabelOf(p)
       /\ \A i, j \in 1..Len(cs) :
            i # j => Range(cs[i].nodeIds) \cap Range(cs[j].nodeIds) = {}
       /\ \A i, j \in 1..Len(cs) : i < j => Len(cs[i].nodeIds) >= Len(cs[j].nodeIds)

\* the whitespace-separated tokens of a line
LineTokens(line) == NonEmpty(SplitOn(line, " "))

\* the line yields a field: it is non-blank, is not a comment, does not start with @@, has
\* at least two tokens and its first token does not start with @
YieldsField(line) ==
  /\ Len(LineTokens(line)) >= 2
  /\ ~StartsWith(LineTokens(line)[1], "//")
  /\ ~StartsWith(LineTokens(line)[1], "@")

\* the second token t with a trailing [] stripped
WithoutArray(t) == IF EndsWith(t, "[]") THEN SubSeq(t, 1, Len(t) - 2) ELSE t

\* the field of a line that yields one
FieldOf(line) ==
  LET t == LineTokens(line)[2]
  IN [name |-> LineTokens(line)[1],
      isArray |-> EndsWith(t, "[]"),
      isOptional |-> EndsWith(WithoutArray(t), "?"),
      type |-> IF EndsWith(WithoutArray(t), "?")
               THEN SubSeq(WithoutArray(t), 1, Len(WithoutArray(t)) - 1)
               ELSE WithoutArray(t)]

\* the lines between the braces of the model of the schema file
BodyOfSchema ==
  LET text == fs[Abs("prisma/schema.prisma")].lines IN SubSeq(text, 2, Len(text) - 1)

\* C26: a line yields a field only if it is non-blank, is not a comment, does not start with
\* @@, has at least two tokens and its first token does not start with @; the field's name
\* is the first token and its type the second token with a trailing [] stripped first
\* (isArray) and then a trailing ? stripped (isOptional): T, T?, T[] and T?[] give type T,
\* T[]? gives type T[] with isArray false.
C26_FieldLineParsing ==
  (modelsPc = "done" /\ ~modelData.isNull) =>
    LET yielding == SelectSeq(BodyOfSchema, YieldsField)
        fields == modelData.models[1].fields
    IN /\ Len(modelData.models) = 1
       /\ Len(fields) = Len(yielding)
       /\ \A k \in 1..Len(fields) :
            /\ fields[k].name = FieldOf(yielding[k]).name
            /\ fields[k].type = FieldOf(yielding[k]).type
            /\ fields[k].isArray = FieldOf(yielding[k]).isArray
            /\ fields[k].isOptional = FieldOf(yielding[k]).isOptional
       /\ \A k \in 1..Len(fields) :
            /\ fields[k].name = "tag" =>
                 fields[k].type = "Tag" /\ fields[k].isArray /\ fields[k].isOptional
            /\ fields[k].name = "odd" =>
                 fields[k].type = "Tag[]" /\ ~fields[k].isArray /\ fields[k].isOptional

\* the fields of the lines `tag Tag?[]` and `odd Tag[]?` have both been parsed
C26_Witness ==
  /\ modelsPc = "done"
  /\ ~modelData.isNull
  /\ Len(modelData.models) = 1
  /\ {modelData.models[1].fields[k].name : k \in 1..Len(modelData.models[1].fields)} = {"tag", "odd"}

\* the names of the emitted entities
EmittedNames == {modelData.models[k].name : k \in 1..Len(modelData.models)}

\* C27: every entity name collected in the first pass has an entity in the emitted list, so
\* for every relationship both from and to name an emitted entity, also for entities
\* declared with an empty body.
C27_DeclaredEntitiesEmitted ==
  (modelsPc = "done" /\ ~modelData.isNull) =>
    /\ \A k \in 1..Len(parsed.modelNames) : parsed.modelNames[k] \in EmittedNames
    /\ \A r \in 1..Len(modelData.relationships) :
         /\ modelData.relationships[r].from \in EmittedNames
         /\ modelData.relationships[r].to \in EmittedNames

\* the file name of the output directory holds the JSON text of the sub-result, or is
\* absent when the sub-result is null
DescribesSubResult(name, sub) ==
  IF sub.isNull THEN name \notin DOMAIN outputDir
  ELSE name \in DOMAIN outputDir /\ outputDir[name] = JsonStringify(sub)

\* C28: after any sequence of successful CLI runs the output directory describes the latest
\* run only: analysis.json is the latest AnalysisResult, each of routes.json,
\* components.json, models.json and dependencies.json that exists holds the sub-result of
\* the latest run, and no such file is present for a sub-result that is null in it.
C28_OutputDescribesLatestRun ==
  (entryPoint = "main" /\ entryPc = "done" /\ outcome = Exit(0)) =>
    /\ "analysis.json" \in DOMAIN outputDir
    /\ outputDir["analysis.json"] = JsonStringify(analysis)
    /\ DescribesSubResult("routes.json", analysis.routes)
    /\ DescribesSubResult("components.json", analysis.components)
    /\ DescribesSubResult("models.json", analysis.models)
    /\ DescribesSubResult("dependencies.json", analysis.dependencies)

\* path p is the directory dir or lies beneath it
Within(p, dir) == p = dir \/ StartsWith(p, dir \o "/")

\* C29: the read-file endpoint returns content only for files inside the requested
\* project directory: a request whose resolved file path is neither the project directory
\* nor a path beneath it is answered 403 and no file is read, and the file served after
\* the extension and index probing lies inside the project directory.
C29_ReadFileStaysInProject ==
  (entryPoint = "readFile" /\ entryPc = "done" /\ outcome # Response(400)) =>
    /\ ~Within(ResolvedFile(input.filePath, input.projectPath),
               ResolvedProject(input.projectPath))
         => (outcome = Response(403) /\ fileRead = <<>>)
    /\ \A i \in 1..Len(fileRead) :
         Within(fileRead[i].path, ResolvedProject(input.projectPath))

\* the handlers whose request is in flight
InFlight == {i \in 1..Len(handlers) : handlers[i].pc = "fetch"}

\* while a request is in flight isLoading is true and no second request is in flight
LoadingWhileInFlight ==
  (InFlight # {}) => (store.isLoading /\ Cardinality(InFlight) = 1)

\* the step that completes the request of a handler leaves isLoading false, on failure
\* with error set, on success with analysis set and error null
CompletionSettlesStore ==
  \A i \in 1..Len(handlers) :
    (i \in InFlight /\ handlers'[i].pc # "fetch") =>
      /\ ~store'.isLoading
      /\ IF handlers'[i].pc = "ok"
         THEN ~store'.analysis.isNull /\ store'.error.isNull
         ELSE ~store'.error.isNull

\* C30: in the folder picker, from the moment handleAnalyze or handleLoadFromFile starts
\* its request until the request completes, isLoading is true, so that no second request
\* starts while one is in flight; once the request completes isLoading is false, on
\* failure error is set, on success analysis is set and error is null.
C30_LoadingSpansRequest ==
  [](entryPoint = "picker" => LoadingWhileInFlight) /\ [][CompletionSettlesStore]_vars

\* the completion half of C30 alone
CompletionOnly == [][CompletionSettlesStore]_vars

====
